---- MODULE Spec2Model ----
(***************************************************************************)
(* Document history, content gateway and file selection of the AI          *)
(* accounting assistant (hooks/useDocumentHistory, hooks/useFileSystem,    *)
(* hooks/useChatLogic and App).                                            *)
(*                                                                         *)
(* Content strings are coded as naturals (only their identity matters);    *)
(* 0 codes the empty string.  JavaScript null and undefined are coded as   *)
(* negative numbers, so that they differ from every content.               *)
(***************************************************************************)
EXTENDS Integers, Sequences, FiniteSets, TLC

NULL == -1
UNDEFINED == -2
EmptyString == 0

MAX_HISTORY_STEPS == 50

\* Bounds of the model.
MaxContent == 1
MaxHist == 2
MaxPushes == 60
MaxCapCalls == 1
MaxLawPushes == 3
MaxTurns == 2
MaxTimers == 1
MaxClock == 5
MaxSaved == 4
MaxItems == 3

Contents == 0..MaxContent
FileIds == {1, 2}

VARIABLES
    files,              \* AppFile[]: fileId -> {content, deleted}
    folders,            \* Folder[]: folderId -> {parentId, deleted}
    idsGenerated,       \* number of file ids generateId has handed out
    activeFileId,       \* the active document, or NULL
    documentHistories,  \* Record<fileId, {history, currentIndex}>
    previousDocumentContentForUndo,  \* the AI Undo Snapshot, or NULL
    isAILoading,
    isAICollaborating,
    collabTimers,       \* pending setTimeout(() => setIsAICollaborating(false), 500)
    turns,              \* backend calls in flight, each with the activeFile it captured
    chatMessages,       \* the chat transcript
    clock,              \* the last value new Date() gave
    closed,             \* observer: the document last deactivated, as it was then
    op,                 \* the last call made: name, arguments, returned value
    pushed,             \* harness: the contents pushed in a row
    calls,              \* harness: number of undo/redo calls made
    returns,            \* harness: the values undo/redo returned, in order
                        \* (SpecLoad: what localStorage.getItem returned)
    phase               \* harness: position in the scripted scenario

transcript == <<chatMessages, clock>>

appVars == <<files, folders, idsGenerated, activeFileId, previousDocumentContentForUndo,
             isAILoading, isAICollaborating, collabTimers, turns, closed,
             transcript>>

vars == <<files, folders, idsGenerated, activeFileId, documentHistories,
          previousDocumentContentForUndo, isAILoading, isAICollaborating,
          collabTimers, turns, closed, chatMessages, clock, op, pushed,
          calls, returns, phase>>

(***************************************************************************)
(* JavaScript arrays are 0-based.                                          *)
(***************************************************************************)
At(s, i) == IF 0 <= i /\ i < Len(s) THEN s[i + 1] ELSE UNDEFINED

\* s.slice(0, end)
SliceTo(s, end) == SubSeq(s, 1, end)

\* s.slice(-n)
SliceLast(s, n) == IF Len(s) <= n THEN s ELSE SubSeq(s, Len(s) - n + 1, Len(s))

\* { ...prev, [fileId]: entry }
Put(prev, fileId, entry) ==
    [x \in DOMAIN prev \cup {fileId} |-> IF x = fileId THEN entry ELSE prev[x]]

NoEntry == [history |-> <<>>, currentIndex |-> -1]

\* documentHistories[fileId], NoEntry standing for a missing key
Entry(h, fileId) == IF fileId \in DOMAIN h THEN h[fileId] ELSE NoEntry

(***************************************************************************)
(* Faulty variants of the updaters, each differing from the source in one  *)
(* decision; the properties below must tell them from the source.          *)
(***************************************************************************)
\* compares with history[currentIndex] instead of the last element
initializeHistoryComparingCurrent(prev, fileId, initialContent) ==
    IF fileId \notin DOMAIN prev
         \/ At(prev[fileId].history, prev[fileId].currentIndex) # initialContent
    THEN Put(prev, fileId, [history |-> <<initialContent>>, currentIndex |-> 0])
    ELSE prev

addHistoryStepVariant(prevHistories, fileId, newContent, variant) ==
    LET currentFileHistory ==
            IF fileId \in DOMAIN prevHistories
            THEN prevHistories[fileId]
            ELSE [history |-> <<>>, currentIndex |-> -1]
        history == currentFileHistory.history
        currentIndex == currentFileHistory.currentIndex
        compared == IF variant = "compareLast" THEN At(history, Len(history) - 1)
                    ELSE At(history, currentIndex)
        kept == IF variant = "noTruncate" THEN history
                ELSE SliceTo(history, currentIndex + 1)
        newHistoryArray == Append(kept, newContent)
        capped ==
            IF variant = "noCap" \/ Len(newHistoryArray) <= MAX_HISTORY_STEPS
            THEN newHistoryArray
            ELSE IF variant = "keepFirst"
                 THEN SliceTo(newHistoryArray, MAX_HISTORY_STEPS)
                 ELSE SliceLast(newHistoryArray, MAX_HISTORY_STEPS)
    IN  IF variant # "noCheck" /\ currentIndex >= 0 /\ compared = newContent
        THEN prevHistories
        ELSE Put(prevHistories, fileId,
                 [history |-> capped, currentIndex |-> Len(capped) - 1])

\* never drops a snapshot
addHistoryStepUncapped(prevHistories, fileId, newContent) ==
    addHistoryStepVariant(prevHistories, fileId, newContent, "noCap")

\* on overflow keeps the first MAX_HISTORY_STEPS snapshots
addHistoryStepKeepingFirst(prevHistories, fileId, newContent) ==
    addHistoryStepVariant(prevHistories, fileId, newContent, "keepFirst")

\* compares the new content with the last snapshot
addHistoryStepComparingLast(prevHistories, fileId, newContent) ==
    addHistoryStepVariant(prevHistories, fileId, newContent, "compareLast")

\* adds a step even when the content is the current snapshot
addHistoryStepUnchecked(prevHistories, fileId, newContent) ==
    addHistoryStepVariant(prevHistories, fileId, newContent, "noCheck")

\* appends after the whole array, keeping the redo branch
addHistoryStepKeepingRedo(prevHistories, fileId, newContent) ==
    addHistoryStepVariant(prevHistories, fileId, newContent, "noTruncate")

\* steps back from index 0 as well
undoFromZero(prev, fileId) ==
    IF fileId \in DOMAIN prev /\ prev[fileId].currentIndex >= 0
    THEN Put(prev, fileId, [prev[fileId] EXCEPT !.currentIndex = @ - 1])
    ELSE prev

\* reports an undo as available at index 0 as well
getHistoryStateFromZero(histories, fileId) ==
    IF fileId = NULL \/ fileId \notin DOMAIN histories
    THEN [canUndo |-> FALSE, canRedo |-> FALSE]
    ELSE [canUndo |-> histories[fileId].currentIndex >= 0,
          canRedo |-> histories[fileId].currentIndex
                          < Len(histories[fileId].history) - 1]

(***************************************************************************)
(* useDocumentHistory: the state updaters of the History Store.            *)
(***************************************************************************)
initializeHistory(prev, fileId, initialContent) ==
    IF fileId \notin DOMAIN prev
         \/ At(prev[fileId].history, Len(prev[fileId].history) - 1) # initialContent
    THEN Put(prev, fileId, [history |-> <<initialContent>>, currentIndex |-> 0])
    ELSE prev

addHistoryStep(prevHistories, fileId, newContent) ==
    LET currentFileHistory ==
            IF fileId \in DOMAIN prevHistories
            THEN prevHistories[fileId]
            ELSE [history |-> <<EmptyString>>, currentIndex |-> -1]
        newHistoryArray ==
            Append(SliceTo(currentFileHistory.history,
                           currentFileHistory.currentIndex + 1), newContent)
        capped ==
            IF Len(newHistoryArray) > MAX_HISTORY_STEPS
            THEN SliceLast(newHistoryArray, MAX_HISTORY_STEPS)
            ELSE newHistoryArray
    IN  IF currentFileHistory.currentIndex >= 0
           /\ At(currentFileHistory.history, currentFileHistory.currentIndex) = newContent
        THEN prevHistories
        ELSE Put(prevHistories, fileId,
                 [history |-> capped, currentIndex |-> Len(capped) - 1])

\* the updater of undo: the map it leaves
undo(prev, fileId) ==
    IF fileId \in DOMAIN prev /\ prev[fileId].currentIndex > 0
    THEN Put(prev, fileId, [prev[fileId] EXCEPT !.currentIndex = @ - 1])
    ELSE prev

\* the value the updater of undo assigns to newContent
undoNewContent(prev, fileId) ==
    IF fileId \in DOMAIN prev /\ prev[fileId].currentIndex > 0
    THEN At(prev[fileId].history, prev[fileId].currentIndex - 1)
    ELSE UNDEFINED

redo(prev, fileId) ==
    IF fileId \in DOMAIN prev
       /\ prev[fileId].currentIndex < Len(prev[fileId].history) - 1
    THEN Put(prev, fileId, [prev[fileId] EXCEPT !.currentIndex = @ + 1])
    ELSE prev

redoNewContent(prev, fileId) ==
    IF fileId \in DOMAIN prev
       /\ prev[fileId].currentIndex < Len(prev[fileId].history) - 1
    THEN At(prev[fileId].history, prev[fileId].currentIndex + 1)
    ELSE UNDEFINED

(***************************************************************************)
(* undo and redo return a local variable that only the updater passed to   *)
(* setDocumentHistories assigns.  React runs an updater inside the setter  *)
(* call only when the component has no update pending (the eager-state     *)
(* path); otherwise it runs it during the next render, after undo/redo     *)
(* have returned.  The value returned is therefore the snapshot in the     *)
(* first case and undefined in the second; the map is updated in both.     *)
(***************************************************************************)
UpdaterReturns(newContent) == {newContent, UNDEFINED}

getHistoryState(histories, fileId) ==
    IF fileId = NULL \/ fileId \notin DOMAIN histories
    THEN [canUndo |-> FALSE, canRedo |-> FALSE]
    ELSE [canUndo |-> histories[fileId].currentIndex > 0,
          canRedo |-> histories[fileId].currentIndex
                          < Len(histories[fileId].history) - 1]

deleteFileHistory(prev, fileId) ==
    [x \in DOMAIN prev \ {fileId} |-> prev[x]]

resetFileHistory(prev, fileId, content) ==
    Put(prev, fileId, [history |-> <<content>>, currentIndex |-> 0])

(***************************************************************************)
(* SpecHistory: the History Store driven by arbitrary calls.               *)
(***************************************************************************)
NoFiles == [x \in {} |-> [content |-> EmptyString, deleted |-> FALSE]]

NoFolders == [x \in {} |-> [parentId |-> NULL, deleted |-> FALSE]]

\* before, stored: the History Store and the files before the call, where a
\* property looks at them
Call(name, fileId, content, returned, before) ==
    [name |-> name, fileId |-> fileId, content |-> content,
     returned |-> returned, before |-> before, stored |-> NoFiles]

NoCall == Call("none", NULL, NULL, UNDEFINED, <<>>)

EmptyMap == [x \in {} |-> NoEntry]

HarnessIdle == <<pushed, calls, returns, phase>>

NoClosed == [id |-> NULL, content |-> NULL, entry |-> NoEntry]

AppIdle ==
    /\ files = NoFiles
    /\ folders = NoFolders
    /\ idsGenerated = 0
    /\ activeFileId = NULL
    /\ previousDocumentContentForUndo = NULL
    /\ isAILoading = FALSE
    /\ isAICollaborating = FALSE
    /\ collabTimers = 0
    /\ turns = <<>>
    /\ closed = NoClosed
    /\ chatMessages = <<>>
    /\ clock = 0

InitHistory ==
    /\ AppIdle
    /\ documentHistories = EmptyMap
    /\ op = NoCall
    /\ pushed = <<>>
    /\ calls = 0
    /\ returns = <<>>
    /\ phase = "free"

WithinHist(h) == \A x \in DOMAIN h : Len(h[x].history) <= MaxHist

CallInitializeHistory(fileId, content) ==
    /\ documentHistories' = initializeHistory(documentHistories, fileId, content)
    /\ op' = Call("initializeHistory", fileId, content, UNDEFINED, documentHistories)
    /\ UNCHANGED <<HarnessIdle, appVars>>

CallAddHistoryStep(fileId, content) ==
    /\ WithinHist(addHistoryStep(documentHistories, fileId, content))
    /\ documentHistories' = addHistoryStep(documentHistories, fileId, content)
    /\ op' = Call("addHistoryStep", fileId, content, UNDEFINED, documentHistories)
    /\ UNCHANGED <<HarnessIdle, appVars>>

CallUndo(fileId) ==
    /\ \E r \in UpdaterReturns(undoNewContent(documentHistories, fileId)) :
          op' = Call("undo", fileId, NULL, r, documentHistories)
    /\ documentHistories' = undo(documentHistories, fileId)
    /\ UNCHANGED <<HarnessIdle, appVars>>

CallRedo(fileId) ==
    /\ \E r \in UpdaterReturns(redoNewContent(documentHistories, fileId)) :
          op' = Call("redo", fileId, NULL, r, documentHistories)
    /\ documentHistories' = redo(documentHistories, fileId)
    /\ UNCHANGED <<HarnessIdle, appVars>>

CallResetFileHistory(fileId, content) ==
    /\ documentHistories' = resetFileHistory(documentHistories, fileId, content)
    /\ op' = Call("resetFileHistory", fileId, content, UNDEFINED, documentHistories)
    /\ UNCHANGED <<HarnessIdle, appVars>>

CallDeleteFileHistory(fileId) ==
    /\ documentHistories' = deleteFileHistory(documentHistories, fileId)
    /\ op' = Call("deleteFileHistory", fileId, NULL, UNDEFINED, documentHistories)
    /\ UNCHANGED <<HarnessIdle, appVars>>

NextHistory ==
    \/ \E fileId \in FileIds, content \in Contents : CallInitializeHistory(fileId, content)
    \/ \E fileId \in FileIds, content \in Contents : CallAddHistoryStep(fileId, content)
    \/ \E fileId \in FileIds : CallUndo(fileId)
    \/ \E fileId \in FileIds : CallRedo(fileId)
    \/ \E fileId \in FileIds, content \in Contents : CallResetFileHistory(fileId, content)
    \/ \E fileId \in FileIds : CallDeleteFileHistory(fileId)

SpecHistory == InitHistory /\ [][NextHistory]_vars

(***************************************************************************)
(* SpecCap: one document, pairwise-distinct contents pushed up to and past *)
(* MAX_HISTORY_STEPS, with a few undo/redo calls in between.  pushed holds *)
(* the contents pushed since the last undo or redo.                        *)
(***************************************************************************)
ScriptFile == CHOOSE fileId \in FileIds : TRUE

RECURSIVE MaxOf(_)
MaxOf(s) == IF s = <<>> THEN 0
            ELSE LET m == MaxOf(Tail(s)) IN IF Head(s) > m THEN Head(s) ELSE m

\* a content that is in no snapshot of the document
FreshContent(h) == MaxOf(Entry(h, ScriptFile).history) + 1

InitCap ==
    /\ AppIdle
    /\ documentHistories \in
          {EmptyMap, initializeHistory(EmptyMap, ScriptFile, EmptyString)}
    /\ op = NoCall
    /\ pushed = <<>>
    /\ calls = 0
    /\ returns = <<>>
    /\ phase = "cap"

CapPush ==
    /\ Len(pushed) < MaxPushes
    /\ LET content == FreshContent(documentHistories)
       IN  /\ documentHistories' = addHistoryStep(documentHistories, ScriptFile, content)
           /\ op' = Call("addHistoryStep", ScriptFile, content, UNDEFINED, documentHistories)
           /\ pushed' = Append(pushed, content)
    /\ UNCHANGED <<calls, returns, phase, appVars>>

CapUndo ==
    /\ calls < MaxCapCalls
    /\ \E r \in UpdaterReturns(undoNewContent(documentHistories, ScriptFile)) :
          op' = Call("undo", ScriptFile, NULL, r, documentHistories)
    /\ documentHistories' = undo(documentHistories, ScriptFile)
    /\ pushed' = <<>>
    /\ calls' = calls + 1
    /\ UNCHANGED <<returns, phase, appVars>>

CapRedo ==
    /\ calls < MaxCapCalls
    /\ \E r \in UpdaterReturns(redoNewContent(documentHistories, ScriptFile)) :
          op' = Call("redo", ScriptFile, NULL, r, documentHistories)
    /\ documentHistories' = redo(documentHistories, ScriptFile)
    /\ pushed' = <<>>
    /\ calls' = calls + 1
    /\ UNCHANGED <<returns, phase, appVars>>

NextCap == CapPush \/ CapUndo \/ CapRedo

SpecCap == InitCap /\ [][NextCap]_vars

(***************************************************************************)
(* SpecLaw: initialize(c0), pushes c1..cn that each add a step, then n     *)
(* undo calls and n redo calls.  pushed holds c0..cn, returns the values   *)
(* undo and redo returned.                                                 *)
(***************************************************************************)
InitLaw ==
    /\ AppIdle
    /\ \E c0 \in Contents :
          /\ documentHistories = initializeHistory(EmptyMap, ScriptFile, c0)
          /\ pushed = <<c0>>
    /\ op = NoCall
    /\ calls = 0
    /\ returns = <<>>
    /\ phase = "push"

LawPush(content) ==
    /\ phase = "push"
    /\ Len(pushed) <= MaxLawPushes
    /\ content # pushed[Len(pushed)]
    /\ documentHistories' = addHistoryStep(documentHistories, ScriptFile, content)
    /\ op' = Call("addHistoryStep", ScriptFile, content, UNDEFINED, documentHistories)
    /\ pushed' = Append(pushed, content)
    /\ UNCHANGED <<calls, returns, phase, appVars>>

LawUndo ==
    /\ \/ phase = "push" /\ Len(pushed) >= 2
       \/ phase = "undo" /\ calls < Len(pushed) - 1
    /\ \E r \in UpdaterReturns(undoNewContent(documentHistories, ScriptFile)) :
          /\ op' = Call("undo", ScriptFile, NULL, r, documentHistories)
          /\ returns' = Append(returns, r)
    /\ documentHistories' = undo(documentHistories, ScriptFile)
    /\ calls' = IF phase = "push" THEN 1 ELSE calls + 1
    /\ phase' = "undo"
    /\ UNCHANGED <<pushed, appVars>>

LawRedo ==
    /\ \/ phase = "undo" /\ calls = Len(pushed) - 1
       \/ phase = "redo" /\ calls < Len(pushed) - 1
    /\ \E r \in UpdaterReturns(redoNewContent(documentHistories, ScriptFile)) :
          /\ op' = Call("redo", ScriptFile, NULL, r, documentHistories)
          /\ returns' = Append(returns, r)
    /\ documentHistories' = redo(documentHistories, ScriptFile)
    /\ calls' = IF phase = "undo" THEN 1 ELSE calls + 1
    /\ phase' = IF calls' = Len(pushed) - 1 THEN "done" ELSE "redo"
    /\ UNCHANGED <<pushed, appVars>>

NextLaw ==
    \/ \E content \in Contents : LawPush(content)
    \/ LawUndo
    \/ LawRedo

SpecLaw == InitLaw /\ [][NextLaw]_vars

(***************************************************************************)
(* useFileSystem and App: files, the active document, the gateway.         *)
(***************************************************************************)
\* files.find(f => f.id === fileId && !f.deletedAt) finds a file
FindLive(fs, fileId) ==
    fileId # NULL /\ fileId \in DOMAIN fs /\ ~fs[fileId].deleted

\* maps every file to the new content
updateContentOfEveryFile(prevFiles, fileId, newContent) ==
    [x \in DOMAIN prevFiles |-> [prevFiles[x] EXCEPT !.content = newContent]]

updateFileContentOnly(prevFiles, fileId, newContent) ==
    [x \in DOMAIN prevFiles |->
        IF x = fileId THEN [prevFiles[x] EXCEPT !.content = newContent]
        ELSE prevFiles[x]]

\* the gateway: stored content, then a history step
handleDocumentContentChange(fs, histories, fileId, newContent) ==
    [files |-> updateFileContentOnly(fs, fileId, newContent),
     histories |-> addHistoryStep(histories, fileId, newContent)]

\* prevFiles.map(f => ids.includes(f.id) ? { ...f, deletedAt } : f)
markDeleted(prevFiles, ids, deleted) ==
    [x \in DOMAIN prevFiles |->
        IF x \in ids THEN [prevFiles[x] EXCEPT !.deleted = deleted]
        ELSE prevFiles[x]]

RECURSIVE deleteHistories(_, _)
deleteHistories(prev, ids) ==
    IF ids = {} THEN prev
    ELSE LET id == CHOOSE x \in ids : TRUE
         IN  deleteHistories(deleteFileHistory(prev, id), ids \ {id})

\* the folders reached from the folders in reached through parentId
RECURSIVE WithChildFolders(_, _)
WithChildFolders(currentFolders, reached) ==
    LET childFolders == {f \in DOMAIN currentFolders :
                            currentFolders[f].parentId \in reached} \ reached
    IN  IF childFolders = {} THEN reached
        ELSE WithChildFolders(currentFolders, reached \cup childFolders)

getAllDescendantAndSelfIds(itemId, itemType, currentFolders, currentFiles) ==
    IF itemType = "file"
    THEN [files |-> {itemId}, folders |-> {}]
    ELSE LET folderIds == WithChildFolders(currentFolders, {itemId})
         IN  [files |-> {f \in DOMAIN currentFiles :
                            currentFiles[f].folderId \in folderIds},
              folders |-> folderIds]

\* items: the pairs <<itemIds[index], itemTypes[index]>> of a call
allFilesOf(items, currentFolders, currentFiles) ==
    UNION {getAllDescendantAndSelfIds(item[1], item[2], currentFolders,
                                      currentFiles).files : item \in items}

allFoldersOf(items, currentFolders, currentFiles) ==
    UNION {getAllDescendantAndSelfIds(item[1], item[2], currentFolders,
                                      currentFiles).folders : item \in items}

\* leaves the active document as it is
activeFileIdKept(active, removed) == active

\* if (activeFileId && removed.includes(activeFileId)) setActiveFileId(null)
activeFileIdWithout(active, removed) ==
    IF active # NULL /\ active \in removed THEN NULL ELSE active

(***************************************************************************)
(* The chat transcript of useChatLogic: messages and the functions that    *)
(* write them.                                                             *)
(***************************************************************************)
\* text: "user" (what the user typed), "opened" ("Has abierto ...") and
\* "created" ("Has creado y abierto ..."), "ai" (the chat_message of a
\* response), "ai+note" (chat_message followed by the no-document note),
\* "error" (the fixed text of a failure)
Message(id, sender, text, timestamp) ==
    [id |-> id, sender |-> sender, text |-> text, timestamp |-> timestamp]

\* activeFile undefined
NoActiveFile == [id |-> NULL, content |-> NULL]

\* leaves the array as it is
unsorted(s) == s

\* the response text without the no-document note
chatMessageOnly(aiResult, activeFile) == aiResult.chat_message

\* clears the loading flag only after a chat reply
loadingAfterReplyOnly(aiResult) ==
    IF aiResult.action_type = "CHAT_REPLY" THEN FALSE ELSE isAILoading

\* the place the comparator gives s[i]: after every earlier timestamp and,
\* the sort being stable, after the equal ones that stood before it
RankByTimestamp(s, i) ==
    Cardinality({j \in 1..Len(s) :
                    \/ s[j].timestamp < s[i].timestamp
                    \/ s[j].timestamp = s[i].timestamp /\ j < i}) + 1

\* s.sort((a, b) => new Date(a.timestamp).getTime() - new Date(b.timestamp).getTime())
sortByTimestamp(s) ==
    [k \in 1..Len(s) |-> s[CHOOSE i \in 1..Len(s) : RankByTimestamp(s, i) = k]]

\* s.findIndex(m => m.id === id), 0-based, -1 when there is none
FindIndex(s, id) ==
    IF \E i \in 1..Len(s) : s[i].id = id
    THEN (CHOOSE i \in 1..Len(s) :
             s[i].id = id /\ \A j \in 1..(i - 1) : s[j].id # id) - 1
    ELSE -1

\* s.splice(at, 0, m)
Splice(s, at, m) == SubSeq(s, 1, at) \o <<m>> \o SubSeq(s, at + 1, Len(s))

WithoutId(s, id) == SelectSeq(s, LAMBDA m : m.id # id)

\* sets the list to the new message
messageListOf(prev, message) == <<message>>

addMessageToList(prev, message) == sortByTimestamp(Append(prev, message))

\* m.text.startsWith("Has abierto") || m.text.startsWith("Has creado y abierto")
IsWelcome(m) == m.sender = "ai" /\ m.text \in {"opened", "created"}

welcomeText(isNewFile) == IF isNewFile THEN "created" ELSE "opened"

\* appends the fresh message without filtering
addWelcomeMessageKeepingOld(prevMessages, isNewFile, now) ==
    sortByTimestamp(Append(prevMessages,
                           Message(now, "ai", welcomeText(isNewFile), now)))

addWelcomeMessage(prevMessages, isNewFile, now) ==
    sortByTimestamp(Append(SelectSeq(prevMessages, LAMBDA m : ~IsWelcome(m)),
                           Message(now, "ai", welcomeText(isNewFile), now)))

\* removes the message and, with it, a reply standing right after it
deleteWithReply(prev, messageId) ==
    LET at == FindIndex(prev, messageId) + 1
        old == IF at < Len(prev) /\ prev[at + 1].sender = "ai"
               THEN prev[at + 1].id ELSE NULL
    IN  sortByTimestamp(WithoutId(WithoutId(prev, messageId), old))

deleteChatMessage(prev, messageId) == sortByTimestamp(WithoutId(prev, messageId))

\* takes the message after the edited one for the stale reply, whoever sent it
nextMessageIdToRemove(messages, originalUserMessageId) ==
    LET userMessageIndex == FindIndex(messages, originalUserMessageId)
    IN  IF userMessageIndex + 1 < Len(messages)
        THEN messages[userMessageIndex + 2].id
        ELSE NULL

\* the id of the reply the edit supersedes, NULL when the message after
\* the edited one is not from the assistant
oldAiMessageIdToRemove(messages, originalUserMessageId) ==
    LET userMessageIndex == FindIndex(messages, originalUserMessageId)
    IN  IF userMessageIndex + 1 < Len(messages)
           /\ messages[userMessageIndex + 2].sender = "ai"
        THEN messages[userMessageIndex + 2].id
        ELSE NULL

\* editAndRegenerateMessage, the transcript it sets before the backend call
editedMessages(messages, originalUserMessageId, now) ==
    LET userMessageIndex == FindIndex(messages, originalUserMessageId)
        updated == [messages EXCEPT ![userMessageIndex + 1].timestamp = now]
        old == oldAiMessageIdToRemove(updated, originalUserMessageId)
        tempUpdatedMessages == IF old # NULL THEN WithoutId(updated, old)
                               ELSE updated
    IN  sortByTimestamp(tempUpdatedMessages)

\* drops the response when the edited message is no longer there
withResponseIfFound(prev, originalUserMessageId, message) ==
    LET updatedUserMessageIdx == FindIndex(prev, originalUserMessageId)
    IN  sortByTimestamp(IF updatedUserMessageIdx # -1
                        THEN Splice(prev, updatedUserMessageIdx + 1, message)
                        ELSE prev)

\* editAndRegenerateMessage, the updater that places the response
withResponseAfter(prev, originalUserMessageId, message) ==
    LET updatedUserMessageIdx == FindIndex(prev, originalUserMessageId)
    IN  sortByTimestamp(IF updatedUserMessageIdx # -1
                        THEN Splice(prev, updatedUserMessageIdx + 1, message)
                        ELSE Append(prev, message))

(***************************************************************************)
(* The effect of App on [activeFileId, activeFile]: it runs after a        *)
(* commit in which the active id changed or the object found for it did    *)
(* (a file mapped to a new object is a new activeFile), and clears the AI  *)
(* Undo Snapshot.  touched are the ids whose file objects were replaced.   *)
(***************************************************************************)
EffectRuns(fs, active, fs2, active2, touched) ==
    \/ active2 # active
    \/ FindLive(fs, active) # FindLive(fs2, active2)
    \/ FindLive(fs2, active2) /\ active2 \in touched

\* the effect without its branch for no active document
AfterEffectForDocumentOnly(fs, active, fs2, active2, touched, prev2) ==
    IF EffectRuns(fs, active, fs2, active2, touched) /\ FindLive(fs2, active2)
    THEN NULL
    ELSE prev2

AfterEffect(fs, active, fs2, active2, touched, prev2) ==
    IF EffectRuns(fs, active, fs2, active2, touched)
       /\ (FindLive(fs2, active2) \/ active2 = NULL)
    THEN NULL
    ELSE prev2

\* The first branch of the effect also calls addWelcomeMessage; isNewFile is
\* a guess from the clock (created less than a second ago).  The transcript
\* is followed where phase is "welcome" (SpecWelcome), elsewhere it is left
\* out of the commit.
Welcomed(fs2, active2, touched) ==
    IF /\ phase = "welcome"
       /\ EffectRuns(files, activeFileId, fs2, active2, touched)
       /\ FindLive(fs2, active2)
    THEN /\ clock < MaxClock
         /\ clock' = clock + 1
         /\ \E isNewFileCreation \in BOOLEAN :
                chatMessages' =
                    addWelcomeMessage(chatMessages, isNewFileCreation, clock')
    ELSE UNCHANGED transcript

\* one commit of the React state, followed by the effect
Commit(fs2, active2, histories2, prev2, touched) ==
    /\ files' = fs2
    /\ activeFileId' = active2
    /\ documentHistories' = histories2
    /\ previousDocumentContentForUndo' =
          AfterEffect(files, activeFileId, fs2, active2, touched, prev2)
    /\ Welcomed(fs2, active2, touched)

\* renderMainContent: the explorer is shown unless a document is active
ExplorerShown == ~FindLive(files, activeFileId)
EditorShown == FindLive(files, activeFileId)

\* closed is looked at by the selectFile that follows the deactivation
ClosedAfter == NoClosed

ChatIdle == <<isAILoading, isAICollaborating, collabTimers, turns>>

Init ==
    /\ AppIdle
    /\ documentHistories = EmptyMap
    /\ op = NoCall
    /\ pushed = <<>>
    /\ calls = 0
    /\ returns = <<>>
    /\ phase = "app"

createFile(content, opName) ==
    /\ idsGenerated < Cardinality(FileIds)
    /\ LET id == idsGenerated + 1
           initialContent == IF content = UNDEFINED THEN EmptyString ELSE content
           newFile == [content |-> initialContent, deleted |-> FALSE]
       IN  /\ Commit([x \in DOMAIN files \cup {id} |->
                         IF x = id THEN newFile ELSE files[x]],
                     IF content = UNDEFINED THEN id ELSE activeFileId,
                     initializeHistory(documentHistories, id, initialContent),
                     previousDocumentContentForUndo, {})
           /\ op' = Call(opName, id, content, UNDEFINED, <<>>)
    /\ idsGenerated' = idsGenerated + 1
    /\ closed' = ClosedAfter
    /\ UNCHANGED <<folders, ChatIdle, HarnessIdle>>

\* an upload: MediaExplorer always passes the content it read from the file
CreateFile(content) ==
    /\ ExplorerShown
    /\ createFile(content, "createFile")

DuplicateFile(fileId) ==
    /\ ExplorerShown
    /\ FindLive(files, fileId)
    /\ createFile(files[fileId].content, "duplicateFile")

\* op.content of a selectFile is the snapshot that was held when it was called
SelectFile(fileId) ==
    /\ ExplorerShown
    /\ FindLive(files, fileId)
    /\ Commit(files, fileId,
              initializeHistory(documentHistories, fileId, files[fileId].content),
              previousDocumentContentForUndo, {})
    /\ op' = Call("selectFile", fileId, previousDocumentContentForUndo, UNDEFINED,
                  documentHistories)
    /\ UNCHANGED <<folders, idsGenerated, closed, ChatIdle, HarnessIdle>>

\* selectFile(null): the back button of the editor, the sidebar
DeselectFile ==
    /\ Commit(files, NULL, documentHistories, previousDocumentContentForUndo, {})
    /\ op' = Call("selectFile", NULL, previousDocumentContentForUndo, UNDEFINED,
                  <<>>)
    /\ closed' = IF EditorShown
                 THEN [id |-> activeFileId,
                       content |-> files[activeFileId].content,
                       entry |-> Entry(documentHistories, activeFileId)]
                 ELSE NoClosed
    /\ UNCHANGED <<folders, idsGenerated, ChatIdle, HarnessIdle>>

DeleteItems(ids) ==
    /\ ExplorerShown
    /\ ids # {}
    /\ \A x \in ids : FindLive(files, x)
    /\ Commit(markDeleted(files, ids, TRUE),
              IF activeFileId # NULL /\ activeFileId \in ids THEN NULL ELSE activeFileId,
              documentHistories, previousDocumentContentForUndo, ids)
    /\ op' = Call("deleteItems", NULL, NULL, UNDEFINED, <<>>)
    /\ closed' = ClosedAfter
    /\ UNCHANGED <<folders, idsGenerated, ChatIdle, HarnessIdle>>

RestoreItems(ids) ==
    /\ ExplorerShown
    /\ ids # {}
    /\ \A x \in ids : x \in DOMAIN files /\ files[x].deleted
    /\ Commit(markDeleted(files, ids, FALSE), activeFileId,
              documentHistories, previousDocumentContentForUndo, ids)
    /\ op' = Call("restoreItems", NULL, NULL, UNDEFINED, <<>>)
    /\ closed' = ClosedAfter
    /\ UNCHANGED <<folders, idsGenerated, ChatIdle, HarnessIdle>>

PermanentDeleteItems(ids) ==
    /\ ExplorerShown
    /\ ids # {}
    /\ \A x \in ids : x \in DOMAIN files /\ files[x].deleted
    /\ Commit([x \in DOMAIN files \ ids |-> files[x]],
              IF activeFileId # NULL /\ activeFileId \in ids THEN NULL ELSE activeFileId,
              deleteHistories(documentHistories, ids),
              previousDocumentContentForUndo, {})
    /\ op' = Call("permanentDeleteItems", NULL, NULL, UNDEFINED, <<>>)
    /\ closed' = ClosedAfter
    /\ UNCHANGED <<folders, idsGenerated, ChatIdle, HarnessIdle>>

\* onContentChange of the editor: handleDocumentContentChange(activeFile.id, c)
ContentChange(content, opName) ==
    /\ EditorShown
    /\ LET r == handleDocumentContentChange(files, documentHistories,
                                            activeFileId, content)
       IN  /\ WithinHist(r.histories)
           /\ Commit(r.files, activeFileId, r.histories,
                     previousDocumentContentForUndo, {activeFileId})
    /\ op' = Call(opName, activeFileId, content, UNDEFINED, <<>>)
    /\ closed' = ClosedAfter
    /\ UNCHANGED <<folders, idsGenerated, ChatIdle, HarnessIdle>>

\* typing in the textarea (disabled while the AI is collaborating)
EditText(content) ==
    /\ ~isAICollaborating
    /\ EditorShown
    /\ content # files[activeFileId].content
    /\ ContentChange(content, "editText")

\* a row or column operation of the tabular editor (modifyCsvData)
EditTable(content) == ContentChange(content, "editTable")

HandleUndoRedo(newContent, histories2, opName) ==
    /\ \E r \in UpdaterReturns(newContent) :
          /\ Commit(IF r # UNDEFINED
                    THEN updateFileContentOnly(files, activeFileId, r)
                    ELSE files,
                    activeFileId, histories2, previousDocumentContentForUndo,
                    IF r # UNDEFINED THEN {activeFileId} ELSE {})
          /\ op' = Call(opName, activeFileId, NULL, r, documentHistories)
    /\ closed' = ClosedAfter
    /\ UNCHANGED <<folders, idsGenerated, ChatIdle, HarnessIdle>>

HandleUndoFromEditor ==
    /\ EditorShown
    /\ ~isAICollaborating
    /\ getHistoryState(documentHistories, activeFileId).canUndo
    /\ HandleUndoRedo(undoNewContent(documentHistories, activeFileId),
                      undo(documentHistories, activeFileId), "undo")

HandleRedoFromEditor ==
    /\ EditorShown
    /\ ~isAICollaborating
    /\ getHistoryState(documentHistories, activeFileId).canRedo
    /\ HandleUndoRedo(redoNewContent(documentHistories, activeFileId),
                      redo(documentHistories, activeFileId), "redo")

\* undoAIDocumentChange(activeFile) of useChatLogic, activeFile being the
\* document found for active: what it leaves of files, histories and snapshot
undoAIDocumentChange(fs, histories, previous, active) ==
    IF FindLive(fs, active) /\ previous # NULL
    THEN LET r == handleDocumentContentChange(fs, histories, active, previous)
         IN  [files |-> r.files, histories |-> r.histories, previous |-> NULL]
    ELSE [files |-> fs, histories |-> histories, previous |-> previous]

\* the "Deshacer IA" button, shown while the snapshot is not null
UndoAIDocumentChange ==
    /\ EditorShown
    /\ previousDocumentContentForUndo # NULL
    /\ LET r == undoAIDocumentChange(files, documentHistories,
                                     previousDocumentContentForUndo, activeFileId)
       IN  /\ WithinHist(r.histories)
           /\ Commit(r.files, activeFileId, r.histories, r.previous, {activeFileId})
    /\ op' = Call("undoAIDocumentChange", activeFileId,
                  previousDocumentContentForUndo, UNDEFINED, <<>>)
    /\ closed' = ClosedAfter
    /\ UNCHANGED <<folders, idsGenerated, ChatIdle, HarnessIdle>>

(***************************************************************************)
(* useChatLogic: a turn captures the activeFile object of the render it    *)
(* was issued in and uses it when the backend call resolves.               *)
(***************************************************************************)
RemoveAt(s, i) == SubSeq(s, 1, i - 1) \o SubSeq(s, i + 1, Len(s))

\* The pending promises are a bag: turns keeps them in one fixed order.
TurnKey(t) ==
    (IF t.kind = "read" THEN 0 ELSE 100)
    + t.activeFile.id * 10 + t.activeFile.content

RECURSIVE AddTurn(_, _)
AddTurn(s, t) ==
    IF s = <<>> THEN <<t>>
    ELSE IF TurnKey(t) <= TurnKey(Head(s)) THEN <<t>> \o s
         ELSE <<Head(s)>> \o AddTurn(Tail(s), t)

\* kind: read (image being read) or send (backend call in flight)
Turn(kind) ==
    [kind |-> kind,
     activeFile |-> [id |-> activeFileId, content |-> files[activeFileId].content]]

SendNewMessage ==
    /\ EditorShown
    /\ ~isAILoading
    /\ Len(turns) < MaxTurns
    /\ turns' = AddTurn(turns, Turn("send"))
    /\ isAILoading' = TRUE
    /\ Commit(files, activeFileId, documentHistories, NULL, {})
    /\ op' = Call("sendNewMessage", activeFileId, NULL, UNDEFINED, <<>>)
    /\ closed' = ClosedAfter
    /\ UNCHANGED <<folders, idsGenerated, isAICollaborating, collabTimers, HarnessIdle>>

(***************************************************************************)
(* ChatPanel.handleSendOrSubmitEdit with an image attached: the handler    *)
(* awaits the FileReader and then calls onSendNewMessage of the render it  *)
(* was created in; the loading flag is not looked at again.                *)
(***************************************************************************)
StartImageSend ==
    /\ EditorShown
    /\ ~isAILoading
    /\ Len(turns) < MaxTurns
    /\ turns' = AddTurn(turns, Turn("read"))
    /\ Commit(files, activeFileId, documentHistories,
              previousDocumentContentForUndo, {})
    /\ op' = Call("handleSendOrSubmitEdit", activeFileId, NULL, UNDEFINED,
                  <<>>)
    /\ closed' = ClosedAfter
    /\ UNCHANGED <<folders, idsGenerated, isAILoading, isAICollaborating, collabTimers,
                   HarnessIdle>>

\* reader.onloadend: sendNewMessage is called with the captured activeFile
ImageReadDone(i) ==
    /\ i \in 1..Len(turns)
    /\ turns[i].kind = "read"
    /\ turns' = AddTurn(RemoveAt(turns, i), [turns[i] EXCEPT !.kind = "send"])
    /\ isAILoading' = TRUE
    /\ Commit(files, activeFileId, documentHistories, NULL, {})
    /\ op' = Call("sendNewMessage", turns[i].activeFile.id, NULL, UNDEFINED,
                  <<>>)
    /\ closed' = ClosedAfter
    /\ UNCHANGED <<folders, idsGenerated, isAICollaborating, collabTimers, HarnessIdle>>

\* reader.onerror: the handler returns without sending
ImageReadFailed(i) ==
    /\ i \in 1..Len(turns)
    /\ turns[i].kind = "read"
    /\ turns' = RemoveAt(turns, i)
    /\ Commit(files, activeFileId, documentHistories,
              previousDocumentContentForUndo, {})
    /\ op' = Call("imageReadFailed", turns[i].activeFile.id, NULL, UNDEFINED,
                  <<>>)
    /\ closed' = ClosedAfter
    /\ UNCHANGED <<folders, idsGenerated, isAILoading, isAICollaborating, collabTimers,
                   HarnessIdle>>

\* found: whether the message to edit is still in the transcript
EditAndRegenerateMessage(found) ==
    /\ EditorShown
    /\ ~isAILoading
    /\ Len(turns) < MaxTurns
    /\ turns' = IF found THEN AddTurn(turns, Turn("send")) ELSE turns
    /\ isAILoading' = found
    /\ Commit(files, activeFileId, documentHistories, NULL, {})
    /\ op' = Call("editAndRegenerateMessage", activeFileId, NULL, UNDEFINED,
                  <<>>)
    /\ closed' = ClosedAfter
    /\ UNCHANGED <<folders, idsGenerated, isAICollaborating, collabTimers, HarnessIdle>>

\* getAIResponse resolves with a document update
AIDocumentUpdate(i, content) ==
    /\ i \in 1..Len(turns)
    /\ turns[i].kind = "send"
    /\ collabTimers < MaxTimers
    /\ LET activeFile == turns[i].activeFile
           r == handleDocumentContentChange(files, documentHistories,
                                            activeFile.id, content)
       IN  /\ WithinHist(r.histories)
           /\ Commit(r.files, activeFileId, r.histories, activeFile.content,
                     {activeFile.id})
           /\ op' = [Call("aiDocumentUpdate", activeFile.id, content, UNDEFINED,
                          documentHistories) EXCEPT !.stored = files]
    /\ turns' = RemoveAt(turns, i)
    /\ isAICollaborating' = TRUE
    /\ collabTimers' = collabTimers + 1
    /\ isAILoading' = FALSE
    /\ closed' = ClosedAfter
    /\ UNCHANGED <<folders, idsGenerated, HarnessIdle>>

\* getAIResponse resolves with a chat reply (also what it makes of an error)
AIChatReply(i) ==
    /\ i \in 1..Len(turns)
    /\ turns[i].kind = "send"
    /\ Commit(files, activeFileId, documentHistories,
              previousDocumentContentForUndo, {})
    /\ op' = Call("aiChatReply", turns[i].activeFile.id, NULL, UNDEFINED,
                  <<>>)
    /\ turns' = RemoveAt(turns, i)
    /\ isAILoading' = FALSE
    /\ closed' = ClosedAfter
    /\ UNCHANGED <<folders, idsGenerated, isAICollaborating, collabTimers, HarnessIdle>>

\* setTimeout(() => setIsAICollaborating(false), 500)
CollaboratingTimeout ==
    /\ collabTimers > 0
    /\ collabTimers' = collabTimers - 1
    /\ isAICollaborating' = FALSE
    /\ Commit(files, activeFileId, documentHistories,
              previousDocumentContentForUndo, {})
    /\ op' = Call("collaboratingTimeout", NULL, NULL, UNDEFINED, <<>>)
    /\ closed' = ClosedAfter
    /\ UNCHANGED <<folders, idsGenerated, isAILoading, turns, HarnessIdle>>

Next ==
    \/ \E content \in Contents : CreateFile(content)
    \/ \E fileId \in FileIds : DuplicateFile(fileId)
    \/ \E fileId \in FileIds : SelectFile(fileId)
    \/ DeselectFile
    \/ \E ids \in SUBSET FileIds : DeleteItems(ids)
    \/ \E ids \in SUBSET FileIds : RestoreItems(ids)
    \/ \E ids \in SUBSET FileIds : PermanentDeleteItems(ids)
    \/ \E content \in Contents : EditText(content)
    \/ \E content \in Contents : EditTable(content)
    \/ HandleUndoFromEditor
    \/ HandleRedoFromEditor
    \/ UndoAIDocumentChange
    \/ SendNewMessage
    \/ StartImageSend
    \/ \E i \in 1..MaxTurns : ImageReadDone(i)
    \/ \E i \in 1..MaxTurns : ImageReadFailed(i)
    \/ \E found \in BOOLEAN : EditAndRegenerateMessage(found)
    \/ \E i \in 1..MaxTurns, content \in Contents : AIDocumentUpdate(i, content)
    \/ \E i \in 1..MaxTurns : AIChatReply(i)
    \/ CollaboratingTimeout

Spec == Init /\ [][Next]_vars

(***************************************************************************)
(* SpecWelcome: the editor session of App with the welcome messages its    *)
(* effect writes: documents are uploaded, opened, edited by hand and by    *)
(* the AI, and closed.                                                     *)
(***************************************************************************)
InitWelcome ==
    /\ AppIdle
    /\ documentHistories = EmptyMap
    /\ op = NoCall
    /\ pushed = <<>>
    /\ calls = 0
    /\ returns = <<>>
    /\ phase = "welcome"

NextWelcome ==
    \/ \E content \in Contents : CreateFile(content)
    \/ \E fileId \in FileIds : SelectFile(fileId)
    \/ DeselectFile
    \/ \E content \in Contents : EditText(content)
    \/ \E content \in Contents : EditTable(content)
    \/ HandleUndoFromEditor
    \/ HandleRedoFromEditor
    \/ UndoAIDocumentChange
    \/ SendNewMessage
    \/ \E i \in 1..MaxTurns, content \in Contents : AIDocumentUpdate(i, content)
    \/ \E i \in 1..MaxTurns : AIChatReply(i)
    \/ CollaboratingTimeout

SpecWelcome == InitWelcome /\ [][NextWelcome]_vars

(***************************************************************************)
(* SpecChat: useChatLogic driven by arbitrary calls, with the gateway      *)
(* writing to one stored document.                                         *)
(***************************************************************************)
\* the text of the assistant message for a response
responseText(aiResult, activeFile) ==
    IF aiResult.action_type = "DOCUMENT_UPDATE" /\ activeFile = NoActiveFile
    THEN "ai+note"
    ELSE aiResult.chat_message

\* finally { setIsAILoading(false) }
loadingAfterResponse(aiResult) == FALSE

\* what getAIResponse resolves with: an update carries a string, a reply
\* is passed on with whatever content it carries, a failure is a chat reply
\* with the text of the error
AIResults ==
    [action_type : {"DOCUMENT_UPDATE"}, new_document_content : Contents,
     chat_message : {"ai"}]
    \cup [action_type : {"CHAT_REPLY"}, new_document_content : Contents \cup {NULL},
          chat_message : {"ai"}]
    \cup [action_type : {"CHAT_REPLY"}, new_document_content : {NULL},
          chat_message : {"error"}]

ChatFile == 1

\* the activeFile argument: the stored document as it is now, or none
ActiveFiles == {NoActiveFile, [id |-> ChatFile, content |-> files[ChatFile].content]}

ChatTurn(kind, activeFile, messageId) ==
    [kind |-> kind, activeFile |-> activeFile, messageId |-> messageId]

\* stamps left for a call that needs `need` of them, one being kept for the
\* response of every call in flight
StampsLeft(need) == clock + need + Len(turns) <= MaxClock

docVars == <<files, folders, idsGenerated, activeFileId, documentHistories, closed>>

InitChat ==
    /\ files = [x \in {ChatFile} |-> [content |-> EmptyString, deleted |-> FALSE]]
    /\ folders = NoFolders
    /\ idsGenerated = 1
    /\ activeFileId = NULL
    /\ documentHistories = initializeHistory(EmptyMap, ChatFile, EmptyString)
    /\ previousDocumentContentForUndo = NULL
    /\ isAILoading = FALSE
    /\ isAICollaborating = FALSE
    /\ collabTimers = 0
    /\ turns = <<>>
    /\ closed = NoClosed
    /\ chatMessages = <<>>
    /\ clock = 0
    /\ op = NoCall
    /\ pushed = <<>>
    /\ calls = 0
    /\ returns = <<>>
    /\ phase = "chat"

\* the part of a call that precedes the await: the loading flag, the
\* cleared snapshot and the call in flight
Started(turn) ==
    /\ turns' = Append(turns, turn)
    /\ isAILoading' = TRUE
    /\ previousDocumentContentForUndo' = NULL
    /\ UNCHANGED <<docVars, isAICollaborating, collabTimers, HarnessIdle>>

\* only the check for an empty message
rejectedWhenEmpty(messageText, activeFile, imagePart) ==
    messageText = "" /\ ~imagePart

\* the two checks sendNewMessage makes before it touches any state;
\* messageText is "" when it trims to nothing, imagePart whether one is given
rejected(messageText, activeFile, imagePart) ==
    \/ messageText = "" /\ ~imagePart
    \/ activeFile = NoActiveFile /\ ~imagePart /\ messageText # ""

ChatSendNewMessage(messageText, activeFile, imagePart) ==
    IF rejected(messageText, activeFile, imagePart)
    THEN /\ op' = Call("sendRejected", NULL, NULL, UNDEFINED, <<>>)
         /\ UNCHANGED <<docVars, previousDocumentContentForUndo, ChatIdle,
                        transcript, HarnessIdle>>
    ELSE /\ StampsLeft(2)
         /\ clock' = clock + 1
         /\ chatMessages' =
                addMessageToList(chatMessages,
                                 Message(clock', "user", "user", clock'))
         /\ Started(ChatTurn("send", activeFile, clock'))
         /\ op' = Call("sendNewMessage", NULL, NULL, UNDEFINED, <<>>)

\* op.content of an edit is the id of the reply it removed
ChatEditAndRegenerateMessage(originalUserMessageId, activeFile) ==
    /\ FindIndex(chatMessages, originalUserMessageId) # -1
    /\ StampsLeft(2)
    /\ clock' = clock + 1
    /\ chatMessages' = editedMessages(chatMessages, originalUserMessageId, clock')
    /\ Started(ChatTurn("edit", activeFile, originalUserMessageId))
    /\ op' = Call("editAndRegenerateMessage", NULL,
                  oldAiMessageIdToRemove(chatMessages, originalUserMessageId),
                  UNDEFINED, <<>>)

\* editAndRegenerateMessage with an id the transcript does not hold;
\* op.content is the snapshot that was held when it was called
ChatEditUnknownMessage(originalUserMessageId) ==
    /\ FindIndex(chatMessages, originalUserMessageId) = -1
    /\ isAILoading' = FALSE
    /\ previousDocumentContentForUndo' = NULL
    /\ op' = Call("editUnknownMessage", NULL, previousDocumentContentForUndo,
                  UNDEFINED, <<>>)
    /\ UNCHANGED <<docVars, isAICollaborating, collabTimers, turns, transcript,
                   HarnessIdle>>

\* the branch both calls take on the response
Responded(activeFile, aiResult) ==
    IF /\ aiResult.action_type = "DOCUMENT_UPDATE"
       /\ aiResult.new_document_content # NULL
       /\ activeFile # NoActiveFile
    THEN LET r == handleDocumentContentChange(files, documentHistories,
                                              activeFile.id,
                                              aiResult.new_document_content)
         IN  /\ collabTimers < MaxTimers
             /\ WithinHist(r.histories)
             /\ files' = r.files
             /\ documentHistories' = r.histories
             /\ previousDocumentContentForUndo' = activeFile.content
             /\ isAICollaborating' = TRUE
             /\ collabTimers' = collabTimers + 1
    ELSE UNCHANGED <<files, documentHistories, previousDocumentContentForUndo,
                     isAICollaborating, collabTimers>>

Response(activeFile, aiResult) ==
    Call(aiResult.action_type, activeFile.id, NULL, UNDEFINED, <<>>)

\* sendNewMessage from the await on
ChatSendResponse(i, aiResult) ==
    /\ i \in 1..Len(turns)
    /\ turns[i].kind = "send"
    /\ turns' = RemoveAt(turns, i)
    /\ clock' = clock + 1
    /\ isAILoading' = loadingAfterResponse(aiResult)
    /\ Responded(turns[i].activeFile, aiResult)
    /\ chatMessages' =
           addMessageToList(chatMessages,
                            Message(clock', "ai",
                                    responseText(aiResult, turns[i].activeFile),
                                    clock'))
    /\ op' = Response(turns[i].activeFile, aiResult)
    /\ UNCHANGED <<folders, idsGenerated, activeFileId, closed, HarnessIdle>>

\* editAndRegenerateMessage from the await on
ChatEditResponse(i, aiResult) ==
    /\ i \in 1..Len(turns)
    /\ turns[i].kind = "edit"
    /\ turns' = RemoveAt(turns, i)
    /\ clock' = clock + 1
    /\ isAILoading' = loadingAfterResponse(aiResult)
    /\ Responded(turns[i].activeFile, aiResult)
    /\ chatMessages' =
           withResponseAfter(chatMessages, turns[i].messageId,
                             Message(clock', "ai",
                                     responseText(aiResult, turns[i].activeFile),
                                     clock'))
    /\ op' = Response(turns[i].activeFile, aiResult)
    /\ UNCHANGED <<folders, idsGenerated, activeFileId, closed, HarnessIdle>>

ChatDeleteChatMessage(messageId) ==
    /\ FindIndex(chatMessages, messageId) # -1
    /\ chatMessages' = deleteChatMessage(chatMessages, messageId)
    /\ op' = Call("deleteChatMessage", NULL, NULL, UNDEFINED, <<>>)
    /\ UNCHANGED <<docVars, previousDocumentContentForUndo, ChatIdle, clock,
                   HarnessIdle>>

\* deleteChatMessage with an id the transcript does not hold
ChatDeleteUnknownMessage(messageId) ==
    /\ FindIndex(chatMessages, messageId) = -1
    /\ chatMessages' = deleteChatMessage(chatMessages, messageId)
    /\ op' = Call("deleteUnknownMessage", NULL, NULL, UNDEFINED, <<>>)
    /\ UNCHANGED <<docVars, previousDocumentContentForUndo, ChatIdle, clock,
                   HarnessIdle>>

\* op.content of addWelcomeMessage is the number of messages it filtered out
ChatAddWelcomeMessage(isNewFile) ==
    /\ StampsLeft(1)
    /\ clock' = clock + 1
    /\ chatMessages' = addWelcomeMessage(chatMessages, isNewFile, clock')
    /\ op' = Call("addWelcomeMessage", NULL,
                  Len(SelectSeq(chatMessages, IsWelcome)), UNDEFINED, <<>>)
    /\ UNCHANGED <<docVars, previousDocumentContentForUndo, ChatIdle, HarnessIdle>>

ChatUndoAIDocumentChange(activeFile) ==
    /\ activeFile # NoActiveFile
    /\ previousDocumentContentForUndo # NULL
    /\ LET r == handleDocumentContentChange(files, documentHistories,
                                            activeFile.id,
                                            previousDocumentContentForUndo)
       IN  /\ WithinHist(r.histories)
           /\ files' = r.files
           /\ documentHistories' = r.histories
    /\ previousDocumentContentForUndo' = NULL
    /\ op' = Call("undoAIDocumentChange", activeFile.id,
                  previousDocumentContentForUndo, UNDEFINED, <<>>)
    /\ UNCHANGED <<folders, idsGenerated, activeFileId, closed, isAILoading,
                   isAICollaborating, collabTimers, turns, transcript,
                   HarnessIdle>>

\* setTimeout(() => setIsAICollaborating(false), 500)
ChatCollaboratingTimeout ==
    /\ collabTimers > 0
    /\ collabTimers' = collabTimers - 1
    /\ isAICollaborating' = FALSE
    /\ op' = Call("collaboratingTimeout", NULL, NULL, UNDEFINED, <<>>)
    /\ UNCHANGED <<docVars, previousDocumentContentForUndo, isAILoading, turns,
                   transcript, HarnessIdle>>

MessageIds == 1..MaxClock

\* what the user typed: nothing but blanks, or a text
MessageTexts == {"", "user"}

ChatReceives ==
    \E i \in 1..MaxClock, aiResult \in AIResults :
        ChatSendResponse(i, aiResult) \/ ChatEditResponse(i, aiResult)

NextChat ==
    \/ \E messageText \in MessageTexts, activeFile \in ActiveFiles,
          imagePart \in BOOLEAN :
           ChatSendNewMessage(messageText, activeFile, imagePart)
    \/ \E messageId \in MessageIds, activeFile \in ActiveFiles :
           ChatEditAndRegenerateMessage(messageId, activeFile)
    \/ \E messageId \in MessageIds : ChatEditUnknownMessage(messageId)
    \/ \E i \in 1..MaxClock, aiResult \in AIResults : ChatSendResponse(i, aiResult)
    \/ \E i \in 1..MaxClock, aiResult \in AIResults : ChatEditResponse(i, aiResult)
    \/ \E messageId \in MessageIds : ChatDeleteChatMessage(messageId)
    \/ \E isNewFile \in BOOLEAN : ChatAddWelcomeMessage(isNewFile)
    \/ \E activeFile \in ActiveFiles : ChatUndoAIDocumentChange(activeFile)
    \/ ChatCollaboratingTimeout

SpecChat == InitChat /\ [][NextChat]_vars

(***************************************************************************)
(* SpecRegenerate: useChatLogic constructed over a saved transcript, its   *)
(* user messages being edited and answered anew while documents are opened.*)
(***************************************************************************)
\* a saved message: saved messages are older than the session, the last
\* of n has id and timestamp 0
SavedMessage(sender, i, n) ==
    Message(i - n, sender, IF sender = "user" THEN "user" ELSE "ai", i - n)

\* JSON.parse(savedMessages, dateReviver).sort(...): the transcripts of up to
\* MaxSaved messages, in the order of their timestamps
SavedTranscripts ==
    UNION {{[i \in 1..n |-> SavedMessage(senders[i], i, n)] :
                senders \in [1..n -> {"user", "ai"}]} : n \in 0..MaxSaved}

UserMessageIds ==
    {chatMessages[i].id : i \in {j \in 1..Len(chatMessages) :
                                      chatMessages[j].sender = "user"}}

InitRegenerate ==
    /\ files = [x \in {ChatFile} |-> [content |-> EmptyString, deleted |-> FALSE]]
    /\ folders = NoFolders
    /\ idsGenerated = 1
    /\ activeFileId = NULL
    /\ documentHistories = initializeHistory(EmptyMap, ChatFile, EmptyString)
    /\ previousDocumentContentForUndo = NULL
    /\ isAILoading = FALSE
    /\ isAICollaborating = FALSE
    /\ collabTimers = 0
    /\ turns = <<>>
    /\ closed = NoClosed
    /\ chatMessages \in SavedTranscripts
    /\ clock = 0
    /\ op = NoCall
    /\ pushed = <<>>
    /\ calls = 0
    /\ returns = <<>>
    /\ phase = "regenerate"

NextRegenerate ==
    \/ \E messageId \in UserMessageIds :
           ChatEditAndRegenerateMessage(messageId, NoActiveFile)
    \/ \E i \in 1..MaxClock, aiResult \in AIResults : ChatEditResponse(i, aiResult)
    \/ \E isNewFile \in BOOLEAN : ChatAddWelcomeMessage(isNewFile)

SpecRegenerate == InitRegenerate /\ [][NextRegenerate]_vars

(***************************************************************************)
(* SpecFiles: useFileSystem driven by arbitrary calls.  Files and folders  *)
(* draw their ids from one generator; a file record carries the folder it  *)
(* is in.                                                                  *)
(***************************************************************************)
ItemIds == 1..MaxItems

\* itemIds with the itemTypes the explorer passes along: the type of the
\* item that carries the id
ItemsOf(itemIds) ==
    {<<id, IF id \in DOMAIN folders THEN "folder" ELSE "file">> : id \in itemIds}

InitFiles ==
    /\ AppIdle
    /\ documentHistories = EmptyMap
    /\ op = NoCall
    /\ pushed = <<>>
    /\ calls = 0
    /\ returns = <<>>
    /\ phase = "files"

FilesIdle ==
    <<previousDocumentContentForUndo, ChatIdle, closed, transcript, HarnessIdle>>

CallCreateFolder(parentId) ==
    /\ idsGenerated < MaxItems
    /\ folders' = [x \in DOMAIN folders \cup {idsGenerated + 1} |->
                      IF x = idsGenerated + 1
                      THEN [parentId |-> parentId, deleted |-> FALSE]
                      ELSE folders[x]]
    /\ idsGenerated' = idsGenerated + 1
    /\ op' = Call("createFolder", NULL, NULL, UNDEFINED, <<>>)
    /\ UNCHANGED <<files, activeFileId, documentHistories, FilesIdle>>

CallCreateFile(folderId, content) ==
    /\ idsGenerated < MaxItems
    /\ LET id == idsGenerated + 1
           initialContent == IF content = UNDEFINED THEN EmptyString ELSE content
           newFile == [content |-> initialContent, deleted |-> FALSE,
                       folderId |-> folderId]
       IN  /\ files' = [x \in DOMAIN files \cup {id} |->
                           IF x = id THEN newFile ELSE files[x]]
           /\ documentHistories' =
                  initializeHistory(documentHistories, id, initialContent)
           /\ activeFileId' = IF content = UNDEFINED THEN id ELSE activeFileId
           /\ op' = Call("createFile", id, content, UNDEFINED, <<>>)
    /\ idsGenerated' = idsGenerated + 1
    /\ UNCHANGED <<folders, FilesIdle>>

\* op.fileId of the calls below is the document that was active
CallSelectFile(fileId) ==
    /\ IF FindLive(files, fileId)
       THEN /\ activeFileId' = fileId
            /\ documentHistories' =
                   initializeHistory(documentHistories, fileId,
                                     files[fileId].content)
       ELSE /\ activeFileId' = NULL
            /\ UNCHANGED documentHistories
    /\ op' = Call("selectFile", activeFileId, NULL, UNDEFINED, <<>>)
    /\ UNCHANGED <<files, folders, idsGenerated, FilesIdle>>

CallDeleteItems(items) ==
    LET allFilesToMarkDeleted == allFilesOf(items, folders, files)
        allFoldersToMarkDeleted == allFoldersOf(items, folders, files)
    IN  /\ files' = markDeleted(files, allFilesToMarkDeleted, TRUE)
        /\ folders' = markDeleted(folders, allFoldersToMarkDeleted, TRUE)
        /\ activeFileId' = activeFileIdWithout(activeFileId, allFilesToMarkDeleted)
        /\ op' = Call("deleteItems", activeFileId, NULL, UNDEFINED, <<>>)
        /\ UNCHANGED <<idsGenerated, documentHistories, FilesIdle>>

CallRestoreItems(items) ==
    LET allFilesToRestore == allFilesOf(items, folders, files)
        allFoldersToRestore == allFoldersOf(items, folders, files)
    IN  /\ files' = markDeleted(files, allFilesToRestore, FALSE)
        /\ folders' = markDeleted(folders, allFoldersToRestore, FALSE)
        /\ op' = Call("restoreItems", activeFileId, NULL, UNDEFINED, <<>>)
        /\ UNCHANGED <<idsGenerated, activeFileId, documentHistories, FilesIdle>>

CallPermanentDeleteItems(items) ==
    LET allFilesToDeletePerm == allFilesOf(items, folders, files)
        allFoldersToDeletePerm == allFoldersOf(items, folders, files)
    IN  /\ files' = [x \in DOMAIN files \ allFilesToDeletePerm |-> files[x]]
        /\ folders' = [x \in DOMAIN folders \ allFoldersToDeletePerm |-> folders[x]]
        /\ documentHistories' =
               deleteHistories(documentHistories,
                               allFilesToDeletePerm)
        /\ activeFileId' = activeFileIdWithout(activeFileId, allFilesToDeletePerm)
        /\ op' = Call("permanentDeleteItems", activeFileId, NULL, UNDEFINED, <<>>)
        /\ UNCHANGED <<idsGenerated, FilesIdle>>

NextFiles ==
    \/ \E parentId \in DOMAIN folders \cup {NULL} : CallCreateFolder(parentId)
    \/ \E folderId \in DOMAIN folders \cup {NULL},
          content \in {EmptyString, UNDEFINED} : CallCreateFile(folderId, content)
    \/ \E fileId \in ItemIds \cup {NULL} : CallSelectFile(fileId)
    \/ \E itemIds \in SUBSET ItemIds : CallDeleteItems(ItemsOf(itemIds))
    \/ \E itemIds \in SUBSET ItemIds : CallRestoreItems(ItemsOf(itemIds))
    \/ \E itemIds \in SUBSET ItemIds : CallPermanentDeleteItems(ItemsOf(itemIds))

SpecFiles == InitFiles /\ [][NextFiles]_vars

(***************************************************************************)
(* SpecLoad: the first render of App.  The state initializers of           *)
(* useDocumentHistory, useFileSystem and useChatLogic read their items     *)
(* from localStorage, in this order; an initializer that throws ends the   *)
(* render, and nothing is mounted.                                         *)
(***************************************************************************)
\* localStorage.getItem(key): null ("absent"), the empty string ("empty"), a
\* text that is not JSON ("malformed"), or the JSON text of one of values
Stored(values, none) ==
    [kind : {"absent", "empty", "malformed"}, value : {none}]
    \cup [kind : {"json"}, value : values]

\* saved ? JSON.parse(saved, dateReviver) : none
loaded(saved, none) ==
    IF saved.kind \in {"absent", "empty"}
    THEN [thrown |-> FALSE, value |-> none]
    ELSE IF saved.kind = "malformed"
         THEN [thrown |-> TRUE, value |-> none]
         ELSE [thrown |-> FALSE, value |-> saved.value]

\* what an earlier session may have saved
SavedHistories ==
    {EmptyMap}
    \cup {resetFileHistory(EmptyMap, ScriptFile, c) : c \in Contents}
    \cup {addHistoryStep(resetFileHistory(EmptyMap, ScriptFile, c), ScriptFile, d) :
              c \in Contents, d \in Contents}

SavedFolders ==
    {NoFolders, [x \in {ScriptFile + 1} |-> [parentId |-> NULL, deleted |-> FALSE]]}

SavedFiles ==
    {NoFiles}
    \cup {[x \in {ScriptFile} |-> [content |-> c, deleted |-> d]] :
              c \in Contents, d \in BOOLEAN}

InitLoad ==
    /\ AppIdle
    /\ documentHistories = EmptyMap
    /\ op = NoCall
    /\ pushed = <<>>
    /\ calls = 0
    /\ returns = <<>>
    /\ phase = "load"

LoadIdle ==
    <<idsGenerated, activeFileId, previousDocumentContentForUndo, ChatIdle,
      closed, clock, pushed, calls>>

\* useState(() => { ... LS_DOCUMENT_HISTORIES_KEY ... })
UseDocumentHistory(savedHistories) ==
    /\ phase = "load"
    /\ returns = <<>>
    /\ LET r == loaded(savedHistories, EmptyMap)
       IN  /\ documentHistories' = r.value
           /\ phase' = IF r.thrown THEN "crashed" ELSE "load"
    /\ returns' = <<savedHistories.kind>>
    /\ op' = Call("useDocumentHistory", NULL, NULL, UNDEFINED, <<>>)
    /\ UNCHANGED <<files, folders, chatMessages, LoadIdle>>

\* the two initializers of useFileSystem: folders, then files
UseFileSystem(savedFolders, savedFiles) ==
    /\ phase = "load"
    /\ Len(returns) = 1
    /\ LET r == loaded(savedFolders, NoFolders)
           q == loaded(savedFiles, NoFiles)
       IN  /\ folders' = r.value
           /\ files' = IF r.thrown THEN files ELSE q.value
           /\ phase' = IF r.thrown \/ q.thrown THEN "crashed" ELSE "load"
           /\ returns' = IF r.thrown THEN Append(returns, savedFolders.kind)
                         ELSE returns \o <<savedFolders.kind, savedFiles.kind>>
    /\ op' = Call("useFileSystem", NULL, NULL, UNDEFINED, <<>>)
    /\ UNCHANGED <<documentHistories, chatMessages, LoadIdle>>

\* useState(() => { ... LS_CHAT_MESSAGES_KEY ... .sort(...) })
UseChatLogic(savedMessages) ==
    /\ phase = "load"
    /\ Len(returns) = 3
    /\ LET r == loaded(savedMessages, <<>>)
       IN  /\ chatMessages' = sortByTimestamp(r.value)
           /\ phase' = IF r.thrown THEN "crashed" ELSE "mounted"
    /\ returns' = Append(returns, savedMessages.kind)
    /\ op' = Call("useChatLogic", NULL, NULL, UNDEFINED, <<>>)
    /\ UNCHANGED <<documentHistories, files, folders, LoadIdle>>

NextLoad ==
    \/ \E savedHistories \in Stored(SavedHistories, EmptyMap) :
           UseDocumentHistory(savedHistories)
    \/ \E savedFolders \in Stored(SavedFolders, NoFolders),
          savedFiles \in Stored(SavedFiles, NoFiles) :
           UseFileSystem(savedFolders, savedFiles)
    \/ \E savedMessages \in Stored(SavedTranscripts, <<>>) :
           UseChatLogic(savedMessages)

SpecLoad == InitLoad /\ [][NextLoad]_vars

(***************************************************************************)
(* SpecResponse: useChatLogic over getAIResponse, the backend answering    *)
(* with any JSON value or failing, and the calls that name a message       *)
(* being made with ids the transcript does not hold as well.               *)
(***************************************************************************)
\* a value of the parsed JSON that is neither a string nor null
NotAString == -3

\* what the backend call comes to: JSON.parse gives an object or another
\* value, or the call or the parsing throws.  A missing action_type is ""
\* (falsy), typeof_chat_message is "undefined" for a missing chat_message,
\* a missing new_document_content is UNDEFINED
Outcomes ==
    [type : {"object"},
     action_type : {"DOCUMENT_UPDATE", "CHAT_REPLY", "other", ""},
     typeof_chat_message : {"string", "undefined"},
     chat_message : {"ai"},
     new_document_content : Contents \cup {NULL, UNDEFINED, NotAString}]
    \cup [type : {"other", "thrown"}, action_type : {""},
          typeof_chat_message : {"undefined"}, chat_message : {"ai"},
          new_document_content : {UNDEFINED}]

\* the chat reply getAIResponse substitutes; chat_message "unexpected"
\* ("... unexpected response structure ..."), "invalid content" ("... received
\* invalid content data ...") or "error" (the text of the catch block)
SubstituteReply(chat_message) ==
    [action_type |-> "CHAT_REPLY", new_document_content |-> NULL,
     chat_message |-> chat_message]

\* passes on whatever object was parsed
getAIResponseUnvalidated(parsedResponse) ==
    IF parsedResponse.type = "thrown" THEN SubstituteReply("error")
    ELSE [action_type |-> parsedResponse.action_type,
          new_document_content |-> parsedResponse.new_document_content,
          chat_message |-> parsedResponse.chat_message]

\* getAIResponse from JSON.parse on: the validation and the catch block
getAIResponse(parsedResponse) ==
    IF parsedResponse.type = "thrown" THEN SubstituteReply("error")
    ELSE IF \/ parsedResponse.type # "object"
            \/ parsedResponse.action_type = ""
            \/ parsedResponse.typeof_chat_message # "string"
            \/ parsedResponse.action_type \notin {"DOCUMENT_UPDATE", "CHAT_REPLY"}
            \/ parsedResponse.new_document_content = UNDEFINED
    THEN SubstituteReply("unexpected")
    ELSE IF /\ parsedResponse.action_type = "DOCUMENT_UPDATE"
            /\ parsedResponse.new_document_content \notin Contents
    THEN SubstituteReply("invalid content")
    ELSE [action_type |-> parsedResponse.action_type,
          new_document_content |-> parsedResponse.new_document_content,
          chat_message |-> parsedResponse.chat_message]

InitResponse ==
    /\ files = [x \in {ChatFile} |-> [content |-> EmptyString, deleted |-> FALSE]]
    /\ folders = NoFolders
    /\ idsGenerated = 1
    /\ activeFileId = NULL
    /\ documentHistories = initializeHistory(EmptyMap, ChatFile, EmptyString)
    /\ previousDocumentContentForUndo = NULL
    /\ isAILoading = FALSE
    /\ isAICollaborating = FALSE
    /\ collabTimers = 0
    /\ turns = <<>>
    /\ closed = NoClosed
    /\ chatMessages = <<>>
    /\ clock = 0
    /\ op = NoCall
    /\ pushed = <<>>
    /\ calls = 0
    /\ returns = <<>>
    /\ phase = "response"

\* sendNewMessage from the await on, getAIResponse included
SendSettles(i, parsedResponse) ==
    ChatSendResponse(i, getAIResponse(parsedResponse))

\* editAndRegenerateMessage from the await on, getAIResponse included
EditSettles(i, parsedResponse) ==
    ChatEditResponse(i, getAIResponse(parsedResponse))

NextResponse ==
    \/ \E activeFile \in ActiveFiles : ChatSendNewMessage("user", activeFile, TRUE)
    \/ \E messageId \in MessageIds, activeFile \in ActiveFiles :
           ChatEditAndRegenerateMessage(messageId, activeFile)
    \/ \E i \in 1..MaxClock, parsedResponse \in Outcomes :
           SendSettles(i, parsedResponse)
    \/ \E i \in 1..MaxClock, parsedResponse \in Outcomes :
           EditSettles(i, parsedResponse)
    \/ \E messageId \in MessageIds : ChatEditUnknownMessage(messageId)
    \/ \E messageId \in MessageIds : ChatDeleteUnknownMessage(messageId)
    \/ ChatCollaboratingTimeout

SpecResponse == InitResponse /\ [][NextResponse]_vars

(***************************************************************************)
(* SpecOverlap: useChatLogic constructed over a saved transcript, with     *)
(* new-message turns and edit-and-regenerate turns in flight together and  *)
(* saved messages deleted in between.                                      *)
(***************************************************************************)
SavedIds == {chatMessages[i].id : i \in {j \in 1..Len(chatMessages) :
                                             chatMessages[j].id <= 0}}

InitOverlap ==
    /\ files = [x \in {ChatFile} |-> [content |-> EmptyString, deleted |-> FALSE]]
    /\ folders = NoFolders
    /\ idsGenerated = 1
    /\ activeFileId = NULL
    /\ documentHistories = initializeHistory(EmptyMap, ChatFile, EmptyString)
    /\ previousDocumentContentForUndo = NULL
    /\ isAILoading = FALSE
    /\ isAICollaborating = FALSE
    /\ collabTimers = 0
    /\ turns = <<>>
    /\ closed = NoClosed
    /\ chatMessages \in SavedTranscripts
    /\ clock = 0
    /\ op = NoCall
    /\ pushed = <<>>
    /\ calls = 0
    /\ returns = <<>>
    /\ phase = "overlap"

NextOverlap ==
    \/ ChatSendNewMessage("user", NoActiveFile, TRUE)
    \/ \E messageId \in UserMessageIds :
           ChatEditAndRegenerateMessage(messageId, NoActiveFile)
    \/ \E i \in 1..MaxClock, aiResult \in AIResults : ChatSendResponse(i, aiResult)
    \/ \E i \in 1..MaxClock, aiResult \in AIResults : ChatEditResponse(i, aiResult)
    \/ \E messageId \in SavedIds : ChatDeleteChatMessage(messageId)

SpecOverlap == InitOverlap /\ [][NextOverlap]_vars

\* every backend call that was started settles: getAIResponse resolves with
\* a result or with the text of its failure
SpecChatLive == SpecChat /\ WF_vars(ChatReceives)

(***************************************************************************)
(* Properties.                                                             *)
(***************************************************************************)
Current(entry) == At(entry.history, entry.currentIndex)

OpBefore == Entry(op.before, op.fileId)
OpAfter == Entry(documentHistories, op.fileId)

\* C1 (Spec): every stored document that has a History entry has
\* content = history[currentIndex].
C1_ContentIsCurrentSnapshot ==
    \A f \in DOMAIN files :
        f \in DOMAIN documentHistories =>
            files[f].content = Current(documentHistories[f])

\* an editor undo moved the index of the active document
C1_UndoActed ==
    /\ op.name = "undo"
    /\ phase = "app"
    /\ OpAfter.currentIndex = OpBefore.currentIndex - 1

\* C2 (SpecHistory): for every id with a History entry,
\* 0 <= currentIndex < length(history).
C2_IndexInRange ==
    \A f \in DOMAIN documentHistories :
        /\ 0 <= documentHistories[f].currentIndex
        /\ documentHistories[f].currentIndex < Len(documentHistories[f].history)

\* a push onto an id that had no entry created one
C2_PushedOntoMissingEntry ==
    /\ op.name = "addHistoryStep"
    /\ op.fileId \notin DOMAIN op.before
    /\ op.fileId \in DOMAIN documentHistories

\* C3 (SpecCap): no entry holds more than 50 snapshots; a push that would
\* exceed 50 drops the oldest snapshot from the front and leaves
\* currentIndex at the snapshot just pushed.
C3_CappedAtFifty ==
    /\ \A f \in DOMAIN documentHistories :
          Len(documentHistories[f].history) <= MAX_HISTORY_STEPS
    /\ (/\ op.name = "addHistoryStep"
        /\ OpBefore.currentIndex + 2 > MAX_HISTORY_STEPS
        /\ Current(OpBefore) # op.content)
       => /\ OpAfter.history =
                Append(Tail(SliceTo(OpBefore.history, OpBefore.currentIndex + 1)),
                       op.content)
          /\ OpAfter.currentIndex = Len(OpAfter.history) - 1
          /\ Current(OpAfter) = op.content

\* a push onto a full entry, positioned at its last snapshot, took effect
C3_PushedOntoFullEntry ==
    /\ op.name = "addHistoryStep"
    /\ Len(OpBefore.history) = MAX_HISTORY_STEPS
    /\ OpBefore.currentIndex = MAX_HISTORY_STEPS - 1
    /\ documentHistories # op.before

\* C4 (SpecHistory): no entry contains two adjacent equal snapshots.
C4_NoAdjacentEqual ==
    \A f \in DOMAIN documentHistories :
        \A i \in 1..(Len(documentHistories[f].history) - 1) :
            documentHistories[f].history[i] # documentHistories[f].history[i + 1]

\* a push of the snapshot on top of the redo branch, made after an undo
C4_PushedAfterUndo ==
    /\ op.name = "addHistoryStep"
    /\ Len(OpBefore.history) >= 2
    /\ OpBefore.currentIndex < Len(OpBefore.history) - 1
    /\ op.content = At(OpBefore.history, Len(OpBefore.history) - 1)
    /\ Len(OpAfter.history) >= 2

\* C5 (SpecHistory): a push repeated with the same id and content leaves
\* the History Store exactly as the first push left it.
C5_PushIdempotent ==
    [][(/\ op.name = "addHistoryStep"
        /\ op'.name = "addHistoryStep"
        /\ op'.fileId = op.fileId
        /\ op'.content = op.content)
       => documentHistories' = documentHistories]_vars

\* a push of the content the entry is positioned at changed nothing
C5_RepeatedPush ==
    /\ op.name = "addHistoryStep"
    /\ op.fileId \in DOMAIN op.before
    /\ Current(OpBefore) = op.content
    /\ documentHistories = op.before

\* C6 (SpecCap), as amended: a push of c # history[currentIndex] yields the
\* last 50 snapshots of old history[0..currentIndex] followed by c (all of
\* them when they are at most 50), currentIndex last, canRedo false.
C6_BranchTruncationWithinCap ==
    (op.name = "addHistoryStep" /\ Current(OpBefore) # op.content)
    => /\ OpAfter.history =
             SliceLast(Append(SliceTo(OpBefore.history, OpBefore.currentIndex + 1),
                              op.content),
                       MAX_HISTORY_STEPS)
       /\ OpAfter.currentIndex = Len(OpAfter.history) - 1
       /\ ~getHistoryState(documentHistories, op.fileId).canRedo

\* C6 as stated: the result is old history[0..currentIndex] followed by c.
C6_BranchTruncationAsStated ==
    (op.name = "addHistoryStep" /\ Current(OpBefore) # op.content)
    => /\ OpAfter.history =
             Append(SliceTo(OpBefore.history, OpBefore.currentIndex + 1), op.content)
       /\ OpAfter.currentIndex = Len(OpAfter.history) - 1
       /\ ~getHistoryState(documentHistories, op.fileId).canRedo

\* push c0, c1, c2; undo; push c3
C6_PushedAfterUndoOfThree ==
    /\ op.name = "addHistoryStep"
    /\ Len(OpBefore.history) = 3
    /\ OpBefore.currentIndex = 1
    /\ OpAfter.history = Append(SliceTo(OpBefore.history, 2), op.content)
    /\ OpAfter.currentIndex = 2

\* C7 (SpecLaw): after initialize(c0) and pushes c1..cn, n undo calls
\* return c(n-1)..c0 and n redo calls return c1..cn, ending at cn.
C7_UndoRedoInverse ==
    phase = "done" =>
        LET n == Len(pushed) - 1
        IN  /\ returns = [i \in 1..(2 * n) |->
                            IF i <= n THEN pushed[n - i + 1] ELSE pushed[i - n + 1]]
            /\ Current(Entry(documentHistories, ScriptFile)) = pushed[n + 1]

\* two pushes, two undo calls and two redo calls were made
C7_ScenarioDone ==
    /\ phase = "done"
    /\ Len(pushed) >= 3
    /\ Len(returns) = 2 * (Len(pushed) - 1)

\* C8 (SpecCap): 60 pairwise-distinct pushes leave exactly the 50 most
\* recently pushed contents, in push order, currentIndex last.
C8_SixtyPushes ==
    Len(pushed) = 60 =>
        /\ Len(Entry(documentHistories, ScriptFile).history) = 50
        /\ Entry(documentHistories, ScriptFile).history = SubSeq(pushed, 11, 60)
        /\ Entry(documentHistories, ScriptFile).currentIndex = 49

C8_SixtyPushed ==
    /\ Len(pushed) = 60
    /\ op.name = "addHistoryStep"

\* C9 (SpecHistory): initialize(id, content) leaves the store unchanged
\* exactly when the entry exists and its last element is content; otherwise
\* the entry becomes {history: [content], currentIndex: 0}.
C9_InitializeKeepsOrResets ==
    op.name = "initializeHistory" =>
        LET keep == /\ op.fileId \in DOMAIN op.before
                    /\ At(OpBefore.history, Len(OpBefore.history) - 1) = op.content
        IN  /\ keep => documentHistories = op.before
            /\ ~keep => /\ documentHistories # op.before
                        /\ documentHistories =
                              Put(op.before, op.fileId,
                                  [history |-> <<op.content>>, currentIndex |-> 0])

\* initialize with the last element of an entry positioned before it
C9_InitializedBehindLast ==
    /\ op.name = "initializeHistory"
    /\ Len(OpBefore.history) >= 2
    /\ OpBefore.currentIndex < Len(OpBefore.history) - 1
    /\ At(OpBefore.history, Len(OpBefore.history) - 1) = op.content
    /\ documentHistories = op.before

\* the document deactivated last is selected again, content and entry
\* being what they were at deactivation
Reselected ==
    /\ op.name = "selectFile"
    /\ op.fileId # NULL
    /\ op.fileId = closed.id
    /\ OpBefore = closed.entry
    /\ op.fileId \in DOMAIN files
    /\ files[op.fileId].content = closed.content

\* C10 (Spec): deactivating a document and selecting it again with no
\* content change in between leaves its History entry unchanged.
C10_ReselectKeepsEntry ==
    Reselected => OpAfter = closed.entry

\* reselected with currentIndex before the last snapshot
C10_ReselectedBehindLast ==
    /\ Reselected
    /\ closed.entry.currentIndex < Len(closed.entry.history) - 1

\* C11 (SpecHistory): undo with currentIndex > 0 decrements it by one and
\* returns history[new currentIndex], otherwise changes nothing and returns
\* no snapshot; redo is symmetric; neither changes the history sequence.
C11_UndoRedoStepAndReturn ==
    /\ op.name = "undo" =>
          IF OpBefore.currentIndex > 0
          THEN /\ OpAfter.currentIndex = OpBefore.currentIndex - 1
               /\ OpAfter.history = OpBefore.history
               /\ op.returned = Current(OpAfter)
          ELSE documentHistories = op.before /\ op.returned = UNDEFINED
    /\ op.name = "redo" =>
          IF OpBefore.currentIndex < Len(OpBefore.history) - 1
          THEN /\ OpAfter.currentIndex = OpBefore.currentIndex + 1
               /\ OpAfter.history = OpBefore.history
               /\ op.returned = Current(OpAfter)
          ELSE documentHistories = op.before /\ op.returned = UNDEFINED

\* an undo with something to undo was called
C11_UndoStepped ==
    /\ op.name = "undo"
    /\ phase = "free"
    /\ OpBefore.currentIndex > 0
    /\ OpAfter.currentIndex = OpBefore.currentIndex - 1

\* C12 (SpecHistory): canUndo(id) is true exactly when undo(id) would change
\* the entry and canRedo(id) exactly when redo(id) would; both are false for
\* an id without entry and for no active document.
C12_CanUndoRedoExact ==
    /\ \A fileId \in FileIds :
          LET state == getHistoryState(documentHistories, fileId)
          IN  /\ state.canUndo <=> undo(documentHistories, fileId) # documentHistories
              /\ state.canRedo <=> redo(documentHistories, fileId) # documentHistories
              /\ state.canUndo <=> Entry(documentHistories, fileId).currentIndex > 0
              /\ state.canRedo <=>
                    /\ fileId \in DOMAIN documentHistories
                    /\ documentHistories[fileId].currentIndex
                          < Len(documentHistories[fileId].history) - 1
              /\ fileId \notin DOMAIN documentHistories
                    => ~state.canUndo /\ ~state.canRedo
    /\ ~getHistoryState(documentHistories, NULL).canUndo
    /\ ~getHistoryState(documentHistories, NULL).canRedo

\* one entry at index 0 with a redo branch, the other id without entry
C12_RedoOnlyAndMissing ==
    /\ \E fileId \in DOMAIN documentHistories :
          /\ documentHistories[fileId].currentIndex = 0
          /\ Len(documentHistories[fileId].history) >= 2
          /\ getHistoryState(documentHistories, fileId).canRedo
    /\ \E fileId \in FileIds : fileId \notin DOMAIN documentHistories
    /\ phase = "free"

\* C13 (Spec): an editor undo/redo leaves the history sequence unchanged;
\* when it moves the index the stored content of the active document
\* becomes the snapshot at the new index, which is the value returned;
\* when there is nothing to undo/redo content and entry are unchanged.
C13_EditorUndoRedoFrame ==
    (op.name \in {"undo", "redo"} /\ phase = "app")
    => /\ OpAfter.history = OpBefore.history
       /\ IF OpAfter.currentIndex # OpBefore.currentIndex
          THEN /\ op.returned = Current(OpAfter)
               /\ files[op.fileId].content = Current(OpAfter)
          ELSE documentHistories = op.before /\ op.returned = UNDEFINED

\* an editor redo moved the index of the active document
C13_RedoActed ==
    /\ op.name = "redo"
    /\ phase = "app"
    /\ OpAfter.currentIndex = OpBefore.currentIndex + 1

\* ids are generated once: an id generated and no longer in files was
\* permanently deleted
PermanentlyDeleted == {fileId \in 1..idsGenerated : fileId \notin DOMAIN files}

\* C14 (Spec): a permanently deleted document has no History entry in any
\* later state.
C14_NoEntryAfterPermanentDelete ==
    \A fileId \in PermanentlyDeleted : fileId \notin DOMAIN documentHistories

\* the response of a turn issued on a document arrives after the document
\* was permanently deleted
C14_UpdateAfterPermanentDelete ==
    /\ op.name = "aiDocumentUpdate"
    /\ op.fileId \in PermanentlyDeleted

InFlight == {i \in 1..Len(turns) : turns[i].kind = "send"}

\* C17 (Spec): at most one backend call is in flight at any time.
C17_OneCallInFlight == Cardinality(InFlight) <= 1

\* sendNewMessage was called while another call was in flight
C17_SentWhileInFlight ==
    /\ op.name = "sendNewMessage"
    /\ Cardinality(InFlight) = 2

\* C18 (Spec): after an AI document update is applied to a document, the
\* AI Undo Snapshot is the content the document held immediately before,
\* and the document content and its current history snapshot are the new
\* content.
C18_SnapshotIsContentBefore ==
    (op.name = "aiDocumentUpdate" /\ op.fileId \in DOMAIN files)
    => /\ previousDocumentContentForUndo = op.stored[op.fileId].content
       /\ files[op.fileId].content = op.content
       /\ Current(OpAfter) = op.content

\* the update arrived after the user had edited the document, and left a
\* snapshot
C18_UpdateAfterUserEdit ==
    /\ op.name = "aiDocumentUpdate"
    /\ op.fileId \in DOMAIN files
    /\ previousDocumentContentForUndo # NULL
    /\ previousDocumentContentForUndo # op.stored[op.fileId].content

\* C20 (Spec): handling a chat reply (or a failure, which getAIResponse
\* turns into a chat reply) changes no stored content and no History
\* entry, and the AI Undo Snapshot is empty afterwards.
C20_ReplyChangesNoDocument ==
    [][(\E i \in 1..MaxTurns : AIChatReply(i))
       => /\ files' = files
          /\ documentHistories' = documentHistories
          /\ previousDocumentContentForUndo' = NULL]_vars

\* a chat reply was handled while a snapshot was held
C20_ReplyWithSnapshot ==
    /\ op.name = "aiChatReply"
    /\ previousDocumentContentForUndo # NULL


\* C15: in every reachable state the transcript is ordered by timestamp,
\* ascending, whatever calls and responses led to it.
C15_TranscriptSorted ==
    \A i \in 1..(Len(chatMessages) - 1) :
        chatMessages[i].timestamp <= chatMessages[i + 1].timestamp

\* an edit has stamped a user message later than a message created after it
C15_EditedPastLater ==
    /\ op.name = "editAndRegenerateMessage"
    /\ \E i, j \in 1..Len(chatMessages) :
           /\ i < j
           /\ chatMessages[j].id < chatMessages[i].id
           /\ chatMessages[j].timestamp > chatMessages[j].id

\* C16: whenever the loading flag is set it is cleared again, and every
\* call clears it where it ends: on a response that updates the document,
\* on one that would update with no document active, on a reply, on a
\* failure, and when the message to edit is not in the transcript.
C16_LoadingCleared ==
    /\ isAILoading ~> ~isAILoading
    /\ [][(\/ ChatReceives
           \/ \E messageId \in MessageIds : ChatEditUnknownMessage(messageId))
          => ~isAILoading']_vars

\* a response has updated the document and the flag is cleared
C16_UpdateResponded ==
    /\ op.name = "DOCUMENT_UPDATE"
    /\ op.fileId # NULL
    /\ ~isAILoading

\* C19: a response that signals a document update for a call made with no
\* active document changes no stored content, no history entry and not the
\* snapshot kept for undoing, and appends exactly one assistant message,
\* whose text is the explanation followed by the note.
C19_UpdateWithoutDocument ==
    [][\A i \in 1..MaxClock, aiResult \in AIResults :
          (/\ i \in 1..Len(turns)
           /\ turns[i].activeFile = NoActiveFile
           /\ aiResult.action_type = "DOCUMENT_UPDATE"
           /\ ChatSendResponse(i, aiResult) \/ ChatEditResponse(i, aiResult))
          => /\ files' = files
             /\ documentHistories' = documentHistories
             /\ previousDocumentContentForUndo' = previousDocumentContentForUndo
             /\ Len(chatMessages') = Len(chatMessages) + 1
             /\ WithoutId(chatMessages', clock') = chatMessages
             /\ \E k \in 1..Len(chatMessages') :
                    /\ chatMessages'[k].id = clock'
                    /\ chatMessages'[k].sender = "ai"
                    /\ chatMessages'[k].text = "ai+note"]_vars

\* such a response has arrived
C19_NoteAppended ==
    /\ op.name = "DOCUMENT_UPDATE"
    /\ op.fileId = NULL
    /\ \E k \in 1..Len(chatMessages) : chatMessages[k].text = "ai+note"


\* what a click on "Deshacer IA" would leave of the state as it is now
AfterUndoAI ==
    undoAIDocumentChange(files, documentHistories,
                         previousDocumentContentForUndo, activeFileId)

\* C21 (Spec): after an AI update applied to the active document,
\* undoAIChange puts back exactly the content the document held before the
\* update and clears the snapshot, and a second undoAIChange changes nothing.
C21_UndoAIRestoresOnce ==
    (op.name = "aiDocumentUpdate" /\ op.fileId = activeFileId /\ EditorShown)
    => /\ AfterUndoAI.files[activeFileId].content = op.stored[op.fileId].content
       /\ AfterUndoAI.previous = NULL
       /\ undoAIDocumentChange(AfterUndoAI.files, AfterUndoAI.histories,
                               AfterUndoAI.previous, activeFileId) = AfterUndoAI

\* an AI update has changed the content of the active document
C21_ActiveDocumentUpdated ==
    /\ op.name = "aiDocumentUpdate"
    /\ op.fileId = activeFileId
    /\ EditorShown
    /\ files[activeFileId].content # op.stored[op.fileId].content


\* C22 (Spec): a snapshot that is set changes only in a step that is
\* undoAIChange, a change of the active document id, the sending of a
\* message (new or edited) or a further AI update, and the step that applies
\* an AI update leaves it set.
C22_SnapshotKeptUntilConsumed ==
    [][/\ (/\ previousDocumentContentForUndo # NULL
           /\ previousDocumentContentForUndo' # previousDocumentContentForUndo)
          => \/ activeFileId' # activeFileId
             \/ op'.name \in {"undoAIDocumentChange", "sendNewMessage",
                              "editAndRegenerateMessage", "aiDocumentUpdate"}
       /\ (\E i \in 1..MaxTurns, content \in Contents : AIDocumentUpdate(i, content))
          => previousDocumentContentForUndo' # NULL]_vars

\* the update of the active document has left no snapshot
C22_ClearedByTheUpdate ==
    /\ op.name = "aiDocumentUpdate"
    /\ op.fileId = activeFileId
    /\ EditorShown
    /\ previousDocumentContentForUndo = NULL


\* C23 (Spec): a step that changes the active document id, to another
\* document or to none, leaves the AI Undo Snapshot empty.
C23_SwitchClearsSnapshot ==
    [][activeFileId' # activeFileId
       => previousDocumentContentForUndo' = NULL]_vars

\* the document was closed, or another opened, while a snapshot was held
\* that had not been used
C23_SwitchedWithSnapshot ==
    /\ op.name = "selectFile"
    /\ op.content # NULL
    /\ closed.id # NULL
    /\ previousDocumentContentForUndo = NULL


\* C24 (Spec): a snapshot is taken from the active document and is held
\* only while that document stays active: a step that applies an AI update
\* and leaves a snapshot was issued on the document that is active, and a
\* snapshot carried over a step keeps its document.
C24_SnapshotOfActiveDocument ==
    [][/\ \A i \in 1..MaxTurns, content \in Contents :
             (AIDocumentUpdate(i, content)
              /\ previousDocumentContentForUndo' # NULL)
             => turns[i].activeFile.id = activeFileId'
       /\ (/\ previousDocumentContentForUndo # NULL
           /\ previousDocumentContentForUndo' # NULL)
          => activeFileId' = activeFileId]_vars

\* a response has left the content of one document as the undo target
\* while another document is open
C24_SnapshotOfOtherDocument ==
    /\ op.name = "aiDocumentUpdate"
    /\ EditorShown
    /\ op.fileId # activeFileId
    /\ previousDocumentContentForUndo # NULL


Ids(s) == {s[i].id : i \in 1..Len(s)}

PlaceOf(s, id) == FindIndex(s, id) + 1

\* every message of s stands in t as it is
KeptIn(s, t) == \A j \in 1..Len(s) : \E j2 \in 1..Len(t) : t[j2] = s[j]

\* C25 (SpecRegenerate): when the reply to an edited user message arrives,
\* the fresh reply stands immediately after the edited message and the two
\* stand where the turn stood: after the messages created before the edited
\* one and ahead of those created after it ([U1, A1, U2, A2] with U1 edited
\* ends as [U1, A1', U2, A2]).
C25_RegenerateInPlace ==
    [][\A i \in 1..MaxClock, aiResult \in AIResults :
          (ChatEditResponse(i, aiResult)
           /\ turns[i].messageId \in Ids(chatMessages'))
          => LET id == turns[i].messageId
                 k == PlaceOf(chatMessages', id)
             IN  /\ k < Len(chatMessages')
                 /\ chatMessages'[k + 1].id = clock'
                 /\ \A j \in 1..Len(chatMessages') :
                        chatMessages'[j].id \notin {id, clock'}
                        => (j < k <=> chatMessages'[j].id < id)]_vars

\* the first of two turns was edited and answered: the second turn stands
\* ahead of it
C25_SecondTurnAhead ==
    /\ phase = "regenerate"
    /\ op.name \in {"CHAT_REPLY", "DOCUMENT_UPDATE"}
    /\ Len(chatMessages) = 4
    /\ [j \in 1..4 |-> chatMessages[j].sender] = <<"user", "ai", "user", "ai">>
    /\ chatMessages[3].timestamp > chatMessages[3].id
    /\ chatMessages[4].id = clock
    /\ chatMessages[1].id > chatMessages[3].id

C27_DeleteRemovesOnlyThat ==
    [][\A messageId \in MessageIds :
          ChatDeleteChatMessage(messageId)
          => /\ chatMessages' = WithoutId(chatMessages, messageId)
             /\ Len(chatMessages') = Len(chatMessages) - 1
             /\ files' = files
             /\ documentHistories' = documentHistories
             /\ previousDocumentContentForUndo' = previousDocumentContentForUndo]_vars

\* a user message was deleted and the reply that followed it is still there
C27_ReplyLeftBehind ==
    /\ phase = "chat"
    /\ op.name = "deleteChatMessage"
    /\ \E j \in 1..Len(chatMessages) :
           /\ chatMessages[j].text \in {"ai", "ai+note", "error"}
           /\ \A j2 \in 1..Len(chatMessages) : chatMessages[j2].sender # "user"
    /\ previousDocumentContentForUndo # NULL


\* C28: after addWelcomeMessage(fileName, isNewFile) the transcript holds
\* exactly one assistant message with an opened/created prefix, the fresh
\* one, phrased as created or opened according to isNewFile, and every
\* other message is still there.
C28_OneFreshWelcome ==
    [][\A isNewFile \in BOOLEAN :
          ChatAddWelcomeMessage(isNewFile)
          => /\ Cardinality({j \in 1..Len(chatMessages') :
                                IsWelcome(chatMessages'[j])}) = 1
             /\ \E j \in 1..Len(chatMessages') :
                    /\ chatMessages'[j].id = clock'
                    /\ chatMessages'[j].sender = "ai"
                    /\ chatMessages'[j].text =
                           (IF isNewFile THEN "created" ELSE "opened")
             /\ KeptIn(SelectSeq(chatMessages, LAMBDA m : ~IsWelcome(m)),
                       chatMessages')
             /\ Len(chatMessages') =
                    Len(SelectSeq(chatMessages, LAMBDA m : ~IsWelcome(m))) + 1]_vars

\* a welcome message has taken the place of an earlier one in a transcript
\* that holds other messages
C28_WelcomeReplaced ==
    /\ phase = "chat"
    /\ op.name = "addWelcomeMessage"
    /\ op.content = 1
    /\ Len(chatMessages) >= 2


\* C30: a submission with an empty text and no attachment, or with a text,
\* no attachment and no active document, changes neither the transcript
\* nor the loading flag, the snapshot, the documents or the histories, and
\* starts no backend call.
C30_RejectedBeforeAnyChange ==
    [][\A messageText \in MessageTexts, activeFile \in ActiveFiles,
          imagePart \in BOOLEAN :
          (/\ \/ messageText = "" /\ ~imagePart
              \/ messageText # "" /\ ~imagePart /\ activeFile = NoActiveFile
           /\ ChatSendNewMessage(messageText, activeFile, imagePart))
          => UNCHANGED <<chatMessages, isAILoading,
                         previousDocumentContentForUndo, files,
                         documentHistories, turns>>]_vars

\* a submission was rejected while a call was in flight
C30_RejectedInFlight ==
    /\ op.name = "sendRejected"
    /\ turns # <<>>
    /\ isAILoading
    /\ chatMessages # <<>>


WelcomeMessages == SelectSeq(chatMessages, IsWelcome)

\* C29 (SpecWelcome): a step that leaves the active document id as it is,
\* whatever it does to the content of the active document, adds, removes
\* and re-stamps no welcome message.
C29_WelcomeOnlyOnOpen ==
    [][activeFileId' = activeFileId => WelcomeMessages' = WelcomeMessages]_vars

\* a manual edit of the open document has written a fresh welcome message
C29_WelcomeAfterEdit ==
    /\ phase = "welcome"
    /\ op.name = "editText"
    /\ clock >= 2
    /\ \E j \in 1..Len(chatMessages) :
           IsWelcome(chatMessages[j]) /\ chatMessages[j].id = clock

\* C31 (SpecResponse): editAndRegenerateMessage and deleteMessage called with an id that
\* the transcript does not hold change neither the transcript nor the
\* snapshot, the documents or the histories, start no backend call, and
\* leave the loading flag false.
C31_UnknownMessageNoOp ==
    [][\A messageId \in MessageIds :
          (\/ ChatEditUnknownMessage(messageId)
           \/ ChatDeleteUnknownMessage(messageId))
          => /\ UNCHANGED <<chatMessages, previousDocumentContentForUndo,
                            files, documentHistories, turns>>
             /\ ~isAILoading']_vars

\* an edit of an unknown message was called while a snapshot was held
C31_UnknownEditWithSnapshot ==
    /\ op.name = "editUnknownMessage"
    /\ op.content # NULL
    /\ previousDocumentContentForUndo = NULL
    /\ chatMessages # <<>>

\* C32 (SpecHistory): push, undo, redo, canUndo/canRedo and discard called
\* with an id that has no entry leave the History Store as it is, no entry
\* being created or altered, and undo and redo return no snapshot.
C32_MissingEntryNoOp ==
    [][\A fileId \in FileIds \ DOMAIN documentHistories :
          /\ getHistoryState(documentHistories, fileId)
                 = [canUndo |-> FALSE, canRedo |-> FALSE]
          /\ (\/ \E content \in Contents : CallAddHistoryStep(fileId, content)
              \/ CallUndo(fileId)
              \/ CallRedo(fileId)
              \/ CallDeleteFileHistory(fileId))
             => /\ documentHistories' = documentHistories
                /\ op'.name \in {"undo", "redo"} => op'.returned = UNDEFINED]_vars

\* a push on an id without entry has left an entry for it, next to the
\* entry of another document
C32_PushCreatedEntry ==
    /\ phase = "free"
    /\ op.name = "addHistoryStep"
    /\ op.fileId \notin DOMAIN op.before
    /\ op.before # EmptyMap
    /\ OpAfter = [history |-> <<op.content>>, currentIndex |-> 0]

\* the shapes that are not a response: action_type, chat_message or
\* new_document_content missing, an action_type that is not known, an
\* update whose new_document_content is not a string
InvalidShape(parsedResponse) ==
    \/ parsedResponse.type = "other"
    \/ /\ parsedResponse.type = "object"
       /\ \/ parsedResponse.action_type \in {"", "other"}
          \/ parsedResponse.typeof_chat_message = "undefined"
          \/ parsedResponse.new_document_content = UNDEFINED
          \/ /\ parsedResponse.action_type = "DOCUMENT_UPDATE"
             /\ parsedResponse.new_document_content \in {NULL, NotAString}

\* C33 (SpecResponse): a backend response of invalid shape changes no
\* stored document and no History entry, adds exactly one assistant
\* message, whose text explains the failure, and the loading flag is
\* cleared.
C33_InvalidShapeIsFailure ==
    [][\A i \in 1..Len(turns), parsedResponse \in Outcomes :
          (/\ InvalidShape(parsedResponse)
           /\ SendSettles(i, parsedResponse) \/ EditSettles(i, parsedResponse))
          => /\ files' = files
             /\ documentHistories' = documentHistories
             /\ Len(chatMessages') = Len(chatMessages) + 1
             /\ WithoutId(chatMessages', clock') = chatMessages
             /\ \E k \in 1..Len(chatMessages') :
                    /\ chatMessages'[k].id = clock'
                    /\ chatMessages'[k].sender = "ai"
                    /\ chatMessages'[k].text \in {"unexpected", "invalid content"}
             /\ ~isAILoading']_vars

\* a call made on the document was answered with an update that carries
\* no string, after an earlier response had updated the document
C33_InvalidUpdateAnswered ==
    /\ phase = "response"
    /\ op.name = "CHAT_REPLY"
    /\ op.fileId = ChatFile
    /\ files[ChatFile].content # EmptyString
    /\ \E k \in 1..Len(chatMessages) :
           /\ chatMessages[k].id = clock
           /\ chatMessages[k].text = "invalid content"

\* C40 (SpecFiles): whenever a document is active, a file with its id is
\* stored and is not soft-deleted, whatever createFile, selectFile,
\* deleteItems, restoreItems and permanentDeleteItems calls were made,
\* deletions of a folder above the document included.
C40_ActiveDocumentIsLive ==
    activeFileId # NULL => FindLive(files, activeFileId)

\* the active document was deactivated by a deleteItems that marked it, its
\* folder and the folder above that as deleted
C40_AncestorFolderDeleted ==
    /\ phase = "files"
    /\ op.name = "deleteItems"
    /\ op.fileId # NULL
    /\ activeFileId = NULL
    /\ op.fileId \in DOMAIN files
    /\ files[op.fileId].deleted
    /\ LET folderId == files[op.fileId].folderId
       IN  /\ folderId \in DOMAIN folders
           /\ folders[folderId].deleted
           /\ folders[folderId].parentId \in DOMAIN folders
           /\ folders[folders[folderId].parentId].deleted

\* the state the k-th item read from localStorage was loaded into is the
\* empty default
LoadedDefault(k) ==
    CASE k = 1 -> documentHistories = EmptyMap
      [] k = 2 -> folders = NoFolders
      [] k = 3 -> files = NoFiles
      [] k = 4 -> chatMessages = <<>>

\* C34 (SpecLoad): loading never fails, and an item that is absent or
\* malformed leaves the empty default in its place: no files, no folders,
\* an empty history map, an empty transcript.
C34_LoadYieldsDefaults ==
    /\ phase # "crashed"
    /\ \A k \in 1..Len(returns) :
           returns[k] \in {"absent", "malformed"} => LoadedDefault(k)

\* histories, folders and files were loaded from what was saved, and the
\* saved transcript did not parse
C34_MalformedTranscript ==
    /\ Len(returns) = 4
    /\ returns[1] = "json"
    /\ returns[3] = "json"
    /\ returns[4] = "malformed"
    /\ files # NoFiles
    /\ documentHistories # EmptyMap

\* message is in s and is the only message s has beyond those of t
OneMore(s, t, id, sender) ==
    /\ Len(s) = Len(t) + 1
    /\ WithoutId(s, id) = t
    /\ \E k \in 1..Len(s) : s[k].id = id /\ s[k].sender = sender

C36_UpdateGoesToIssuingDocument ==
    (phase = "app" /\ op.name = "aiDocumentUpdate")
    => /\ op.fileId \in DOMAIN op.stored
            => /\ files[op.fileId].content = op.content
               /\ Current(OpAfter) = op.content
       /\ DOMAIN files = DOMAIN op.stored
       /\ \A other \in DOMAIN files \ {op.fileId} :
              files[other] = op.stored[other]
       /\ \A other \in FileIds \ {op.fileId} :
              Entry(documentHistories, other) = Entry(op.before, other)

\* a response has changed the content of the document its turn was issued
\* on while another document, with another content, was open
C36_UpdatedBehindOpenDocument ==
    /\ phase = "app"
    /\ op.name = "aiDocumentUpdate"
    /\ EditorShown
    /\ op.fileId \in DOMAIN files
    /\ activeFileId # op.fileId
    /\ op.stored[op.fileId].content # op.content
    /\ files[op.fileId].content = op.content
    /\ files[activeFileId].content # op.content

\* the last n elements of a history
EndsWith(history, tail) ==
    /\ Len(history) >= Len(tail)
    /\ SubSeq(history, Len(history) - Len(tail) + 1, Len(history)) = tail

\* C37 (Spec): undoAIChange after an AI update of the open document from p
\* to a (p # a) records a step: the history then ends with p, a, p, the
\* cursor is on the last position, nothing can be redone and one undo gives
\* the content a of the AI.
C37_UndoAIRecordsStep ==
    (/\ phase = "app"
     /\ op.name = "aiDocumentUpdate"
     /\ op.fileId = activeFileId
     /\ EditorShown
     /\ op.stored[op.fileId].content # op.content)
    => LET p == op.stored[op.fileId].content
           a == op.content
           entry == Entry(AfterUndoAI.histories, activeFileId)
       IN  /\ EndsWith(entry.history, <<p, a, p>>)
           /\ entry.currentIndex = Len(entry.history) - 1
           /\ ~getHistoryState(AfterUndoAI.histories, activeFileId).canRedo
           /\ undoNewContent(AfterUndoAI.histories, activeFileId) = a

\* an AI update has changed the open document, whose history ends with the
\* content before and the content of the AI, and no snapshot is left for
\* undoAIChange
C37_NoSnapshotAfterUpdate ==
    /\ phase = "app"
    /\ op.name = "aiDocumentUpdate"
    /\ op.fileId = activeFileId
    /\ EditorShown
    /\ op.stored[op.fileId].content # op.content
    /\ EndsWith(OpAfter.history, <<op.stored[op.fileId].content, op.content>>)
    /\ previousDocumentContentForUndo = NULL
    /\ AfterUndoAI.histories = documentHistories

\* C38 (Spec): while a backend call is in flight the loading flag is true.
C38_LoadingWhileInFlight == (phase = "app" /\ InFlight # {}) => isAILoading

\* the response of one call has arrived while another call is in flight
C38_OneOfTwoCompleted ==
    /\ phase = "app"
    /\ op.name \in {"aiDocumentUpdate", "aiChatReply"}
    /\ InFlight # {}
    /\ ~isAILoading

\* the messages of s that t no longer holds
Removed(s, t) == {m \in Ids(s) : m \notin Ids(t)}

====
